---- MODULE Spec2Model ----
(***************************************************************************)
(* A model of @marianmeres/migrate: the semantic-version helpers           *)
(* (src/src/semver.ts) and the Migrate engine (src/src/migrate.ts).        *)
(*                                                                         *)
(* Strings are sequences of one-character strings, so that normalisation,  *)
(* parsing and comparison are computed character by character as the       *)
(* regular expressions of the source do.  The value `undefined` and the    *)
(* thrown errors are one-element sequences holding a longer word, which no *)
(* string of characters can equal.                                         *)
(***************************************************************************)
EXTENDS Integers, Sequences, FiniteSets, TLC

(***************************************************************************)
(* Characters and strings                                                  *)
(***************************************************************************)
Digits == <<"0", "1", "2", "3", "4", "5", "6", "7", "8", "9">>

Lower == <<"a", "b", "c", "d", "e", "f", "g", "h", "i", "j", "k", "l", "m",
           "n", "o", "p", "q", "r", "s", "t", "u", "v", "w", "x", "y", "z">>

Upper == <<"A", "B", "C", "D", "E", "F", "G", "H", "I", "J", "K", "L", "M",
           "N", "O", "P", "Q", "R", "S", "T", "U", "V", "W", "X", "Y", "Z">>

\* The characters in code-unit order (the order of JavaScript's < on strings).
CodeUnits == <<"+", "-", ".">> \o Digits \o Upper \o <<"_">> \o Lower

\* The same characters in the order of the default collation used by
\* String.prototype.localeCompare: punctuation, digits, then letters, a
\* lower-case letter before its upper-case one.
Collation == <<"_", "-", ".", "+">> \o Digits \o Lower \o Upper

RankIn(order, c) == CHOOSE i \in 1..Len(order) : order[i] = c

IsDigit(c) == \E i \in 1..Len(Digits) : Digits[i] = c

DigitVal(c) == RankIn(Digits, c) - 1

\* The character class [0-9A-Za-z-.] of parseSemver's pattern.
IsIdentChar(c) ==
    \/ IsDigit(c)
    \/ \E i \in 1..Len(Lower) : Lower[i] = c
    \/ \E i \in 1..Len(Upper) : Upper[i] = c
    \/ c \in {"-", "."}

Take(s, n) == SubSeq(s, 1, n)

Drop(s, n) == SubSeq(s, n + 1, Len(s))

RECURSIVE DigitRun(_)
\* Length of the longest prefix of digits: what a greedy \d+ consumes.
DigitRun(s) == IF s = <<>> \/ ~IsDigit(Head(s)) THEN 0 ELSE 1 + DigitRun(Tail(s))

RECURSIVE IdentRun(_)
\* Length of the longest prefix of [0-9A-Za-z-.] characters.
IdentRun(s) == IF s = <<>> \/ ~IsIdentChar(Head(s)) THEN 0 ELSE 1 + IdentRun(Tail(s))

\* Number of digits of a ".digits" group at the start of s, 0 if there is none.
DotDigits(s) == IF s # <<>> /\ Head(s) = "." THEN DigitRun(Tail(s)) ELSE 0

RECURSIVE ParseInt(_)
\* parseInt(s, 10) of a non-empty string of digits.
ParseInt(s) ==
    IF s = <<>> THEN 0 ELSE 10 * ParseInt(Take(s, Len(s) - 1)) + DigitVal(s[Len(s)])

RECURSIVE Split(_, _)
\* String.prototype.split on a one-character separator.
Split(s, sep) ==
    IF \A i \in 1..Len(s) : s[i] # sep THEN <<s>>
    ELSE LET k == CHOOSE i \in 1..Len(s) :
                     s[i] = sep /\ \A j \in 1..(i - 1) : s[j] # sep
         IN <<Take(s, k - 1)>> \o Split(Drop(s, k), sep)

RECURSIVE LexCompare(_, _, _)
\* Lexicographic comparison of two strings by the given character order:
\* -1, 0 or 1.
LexCompare(order, a, b) ==
    IF a = <<>> /\ b = <<>> THEN 0
    ELSE IF a = <<>> THEN -1
    ELSE IF b = <<>> THEN 1
    ELSE IF RankIn(order, Head(a)) < RankIn(order, Head(b)) THEN -1
    ELSE IF RankIn(order, Head(a)) > RankIn(order, Head(b)) THEN 1
    ELSE LexCompare(order, Tail(a), Tail(b))

IsUpper(c) == \E i \in 1..Len(Upper) : Upper[i] = c

\* The string with its upper-case letters in lower case.
Folded(s) ==
    [i \in 1..Len(s) |-> IF IsUpper(s[i]) THEN Lower[RankIn(Upper, s[i])] ELSE s[i]]

\* The case of the letters counts only between strings that are the same
\* apart from it.
CaseTie(primary, a, b) ==
    IF primary # 0 THEN primary ELSE LexCompare(Collation, a, b)

\* a.localeCompare(b) with the default collation: -1, 0 or 1.
localeCompare(a, b) == CaseTie(LexCompare(Collation, Folded(a), Folded(b)), a, b)

(***************************************************************************)
(* undefined and the errors a call can end with                            *)
(***************************************************************************)
Undefined == <<"undefined">>

InvalidVersion == <<"InvalidVersion">>

InvalidSemVer == <<"InvalidSemVer">>

IsError(x) == x \in {InvalidVersion, InvalidSemVer}

(***************************************************************************)
(* src/src/semver.ts                                                       *)
(***************************************************************************)
\* Every operator below takes what it needs as parameters and names each
\* intermediate result once, as the source's local constants do.
NoMatch == [ok |-> FALSE]

\* The tail (?:-(.+?))?(?:\+(.+))?$ of normalizeSemver's first pattern.  The
\* lazy prerelease group ends at the first "+" that leaves a non-empty build.
LenientTail(r) ==
    IF r = <<>> THEN [ok |-> TRUE, prerelease |-> <<>>, build |-> <<>>]
    ELSE IF Head(r) = "-" /\ Len(r) >= 2 THEN
        LET K == {k \in 2..(Len(r) - 2) : r[k + 1] = "+"}
        IN IF K = {} THEN [ok |-> TRUE, prerelease |-> Tail(r), build |-> <<>>]
           ELSE LET k == CHOOSE x \in K : \A y \in K : x <= y
                IN [ok |-> TRUE, prerelease |-> SubSeq(r, 2, k),
                    build |-> Drop(r, k + 1)]
    ELSE IF Head(r) = "+" /\ Len(r) >= 2 THEN
        [ok |-> TRUE, prerelease |-> <<>>, build |-> Tail(r)]
    ELSE NoMatch

FullTail(major, minor, patch, t) ==
    IF ~t.ok THEN NoMatch
    ELSE [ok |-> TRUE, major |-> major, minor |-> minor, patch |-> patch,
          prerelease |-> t.prerelease, build |-> t.build]

FullPatch(major, minor, r2, n3) ==
    IF n3 = 0 THEN FullTail(major, minor, <<>>, LenientTail(r2))
    ELSE FullTail(major, minor, SubSeq(r2, 2, n3 + 1), LenientTail(Drop(r2, n3 + 1)))

FullMinor(major, r1, n2) ==
    IF n2 = 0 THEN FullTail(major, <<>>, <<>>, LenientTail(r1))
    ELSE FullPatch(major, SubSeq(r1, 2, n2 + 1), Drop(r1, n2 + 1),
                   DotDigits(Drop(r1, n2 + 1)))

FullMajor(v, n1) ==
    IF n1 = 0 THEN NoMatch
    ELSE FullMinor(Take(v, n1), Drop(v, n1), DotDigits(Drop(v, n1)))

\* /^(\d+)(?:\.(\d+))?(?:\.(\d+))?(?:-(.+?))?(?:\+(.+))?$/ : the groups, an
\* empty string for a group that took no part in the match.
FullMatch(v) == FullMajor(v, DigitRun(v))

AlternateTail(major, buildSplit) ==
    [ok |-> TRUE, major |-> major,
     prerelease |-> <<"-">> \o buildSplit[1],
     build |-> IF Len(buildSplit) > 1 THEN <<"+">> \o buildSplit[2] ELSE <<>>]

AlternateMajor(v, n1) ==
    IF n1 = 0 THEN NoMatch
    ELSE IF n1 = Len(v) THEN
        [ok |-> TRUE, major |-> v, prerelease |-> <<>>, build |-> <<>>]
    ELSE IF v[n1 + 1] = "-" /\ Len(v) >= n1 + 2 THEN
        AlternateTail(Take(v, n1), Split(Drop(v, n1 + 1), "+"))
    ELSE NoMatch

\* /^(\d+)(?:-(.+))?$/ followed by the split of the tail at "+".
AlternateMatch(v) == AlternateMajor(v, DigitRun(v))

OrZero(g) == IF g = <<>> THEN <<"0">> ELSE g

\* The part of normalizeSemver after the two patterns were matched.
NormalizeMatched(fullMatch, alternateMatch, assert) ==
    IF fullMatch.ok THEN
        OrZero(fullMatch.major) \o <<".">> \o OrZero(fullMatch.minor) \o <<".">>
            \o OrZero(fullMatch.patch)
            \o (IF fullMatch.prerelease # <<>>
                THEN <<"-">> \o fullMatch.prerelease ELSE <<>>)
            \o (IF fullMatch.build # <<>> THEN <<"+">> \o fullMatch.build ELSE <<>>)
    ELSE IF alternateMatch.ok THEN
        alternateMatch.major \o <<".", "0", ".", "0">>
            \o alternateMatch.prerelease \o alternateMatch.build
    ELSE IF assert THEN InvalidVersion
    ELSE <<"0", ".", "0", ".", "0">>

NormalizeStripped(v, assert) ==
    NormalizeMatched(FullMatch(v), AlternateMatch(v), assert)

\* Remove leading 'v' or 'V' if present.
StripV(version) ==
    IF version # <<>> /\ Head(version) \in {"v", "V"} THEN Tail(version) ELSE version

normalizeSemverAssert(version, assert) == NormalizeStripped(StripV(version), assert)

\* normalizeSemver(version) with the default assert = true: the normalized
\* string, or InvalidVersion for the TypeError thrown.
normalizeSemver(version) == normalizeSemverAssert(version, TRUE)

StrictBuild(prerelease, r1, nb) ==
    IF r1 = <<>> THEN [ok |-> TRUE, prerelease |-> prerelease, build |-> <<>>]
    ELSE IF nb > 0 /\ nb + 1 = Len(r1)
         THEN [ok |-> TRUE, prerelease |-> prerelease, build |-> Tail(r1)]
    ELSE NoMatch

StrictPre(r, np) ==
    IF np > 0
    THEN StrictBuild(SubSeq(r, 2, np + 1), Drop(r, np + 1),
                     IF Len(r) > np + 1 /\ r[np + 2] = "+"
                     THEN IdentRun(Drop(r, np + 2)) ELSE 0)
    ELSE StrictBuild(<<>>, r,
                     IF r # <<>> /\ Head(r) = "+" THEN IdentRun(Tail(r)) ELSE 0)

\* The tail (?:-([0-9A-Za-z-.]+))?(?:\+([0-9A-Za-z-.]+))?$ of parseSemver.
StrictTail(r) ==
    StrictPre(r, IF r # <<>> /\ Head(r) = "-" THEN IdentRun(Tail(r)) ELSE 0)

StrictFields(major, minor, patch, t) ==
    IF ~t.ok THEN NoMatch
    ELSE [ok |-> TRUE, major |-> ParseInt(major), minor |-> ParseInt(minor),
          patch |-> ParseInt(patch), prerelease |-> t.prerelease, build |-> t.build]

StrictPatch(major, minor, r2, n3) ==
    IF n3 = 0 THEN NoMatch
    ELSE StrictFields(major, minor, SubSeq(r2, 2, n3 + 1),
                      StrictTail(Drop(r2, n3 + 1)))

StrictMinor(major, r1, n2) ==
    IF n2 = 0 THEN NoMatch
    ELSE StrictPatch(major, SubSeq(r1, 2, n2 + 1), Drop(r1, n2 + 1),
                     DotDigits(Drop(r1, n2 + 1)))

StrictMajor(v, n1) ==
    IF n1 = 0 THEN NoMatch
    ELSE StrictMinor(Take(v, n1), Drop(v, n1), DotDigits(Drop(v, n1)))

\* /^(\d+)\.(\d+)\.(\d+)(?:-([0-9A-Za-z-.]+))?(?:\+([0-9A-Za-z-.]+))?$/
StrictMatch(v) == StrictMajor(v, DigitRun(v))

ParseMatched(match) ==
    IF ~match.ok THEN InvalidSemVer
    ELSE [major |-> match.major, minor |-> match.minor, patch |-> match.patch,
          prerelease |-> match.prerelease, build |-> match.build]

ParseNormalized(v) == IF IsError(v) THEN v ELSE ParseMatched(StrictMatch(v))

\* parseSemver: the parsed record, or the error it throws.
parseSemver(version) == ParseNormalized(normalizeSemver(version))

IsNum(part) == part # <<>> /\ DigitRun(part) = Len(part)

\* A faulty variant: numeric identifiers are compared as text.
CompareIdentifiersAsText(aPart, bPart, aIsNum, bIsNum) ==
    IF aIsNum /\ ~bIsNum THEN -1
    ELSE IF ~aIsNum /\ bIsNum THEN 1
    ELSE LexCompare(CodeUnits, aPart, bPart)

\* One iteration of the loop of compareSemver over two identifiers that are
\* both present: the value returned, or 0 when the loop goes on.
CompareIdentifiers(aPart, bPart, aIsNum, bIsNum) ==
    IF aIsNum /\ ~bIsNum THEN -1
    ELSE IF ~aIsNum /\ bIsNum THEN 1
    ELSE IF aIsNum /\ bIsNum THEN ParseInt(aPart) - ParseInt(bPart)
    ELSE LexCompare(CodeUnits, aPart, bPart)

RECURSIVE ComparePrerelease(_, _, _)
\* The loop of compareSemver over the prerelease identifiers, from index i:
\* the value it returns, or 0 when it runs to the end.
ComparePrerelease(aParts, bParts, i) ==
    IF i > Len(aParts) /\ i > Len(bParts) THEN 0
    ELSE IF i > Len(aParts) THEN -1
    ELSE IF i > Len(bParts) THEN 1
    ELSE LET diff == CompareIdentifiers(aParts[i], bParts[i],
                                        IsNum(aParts[i]), IsNum(bParts[i]))
         IN IF diff # 0 THEN diff ELSE ComparePrerelease(aParts, bParts, i + 1)

\* A faulty variant: versions of equal precedence compare as equal.
TieBreakNone(diff, a, b) == diff

\* A faulty variant: of two versions of equal precedence the first is lower.
TieBreakFirst(diff, a, b) == IF diff # 0 THEN diff ELSE -1

TieBreak(diff, a, b) == IF diff # 0 THEN diff ELSE localeCompare(a, b)

CompareParsed(vA, vB, a, b) ==
    IF vA.major # vB.major THEN vA.major - vB.major
    ELSE IF vA.minor # vB.minor THEN vA.minor - vB.minor
    ELSE IF vA.patch # vB.patch THEN vA.patch - vB.patch
    ELSE IF vA.prerelease = <<>> /\ vB.prerelease # <<>> THEN 1
    ELSE IF vA.prerelease # <<>> /\ vB.prerelease = <<>> THEN -1
    ELSE TieBreak(IF vA.prerelease # <<>>
                  THEN ComparePrerelease(Split(vA.prerelease, "."),
                                         Split(vB.prerelease, "."), 1)
                  ELSE 0,
                  a, b)

\* compareSemver of two strings parseSemver accepts.
compareSemver(a, b) == CompareParsed(parseSemver(a), parseSemver(b), a, b)

(***************************************************************************)
(* src/src/migrate.ts: Version and the sorted, uniquely keyed collection   *)
(***************************************************************************)
\* null, which an external getter may return for "no active version".
Null == <<"null">>

Truthy(x) == x \notin {Undefined, Null, <<>>}

Latest == <<"l", "a", "t", "e", "s", "t">>

Initial == <<"i", "n", "i", "t", "i", "a", "l">>

Major == <<"m", "a", "j", "o", "r">>

Minor == <<"m", "i", "n", "o", "r">>

Patch == <<"p", "a", "t", "c", "h">>

VersionRecord(normalized, parsed) ==
    [version |-> normalized,
     major |-> parsed.major, minor |-> parsed.minor, patch |-> parsed.patch,
     prerelease |-> parsed.prerelease, build |-> parsed.build]

VersionOf(normalized) == VersionRecord(normalized, parseSemver(normalized))

\* new Version(version, up, down): the record of its public fields, for a
\* label the constructor accepts.
Version(version) == VersionOf(normalizeSemver(version))

VersionErrorOf(normalized) ==
    IF IsError(normalized) THEN normalized
    ELSE IF IsError(parseSemver(normalized)) THEN InvalidSemVer
    ELSE <<>>

\* What new Version(version, ...) throws: the empty string if nothing.
VersionError(version) ==
    IF version = <<>> THEN InvalidVersion
    ELSE VersionErrorOf(normalizeSemver(version))

\* #compareFn
compareFn(a, b) == compareSemver(a.version, b.version)

\* A faulty variant: the new item goes last, whatever sortFn says.
AddLast(items, v) == Append(items, v)

\* ItemCollection.add under sortFn: the items stay sorted by compareFn, the
\* new one after every item that does not compare greater than it.
Add(items, v) ==
    LET k == Cardinality({i \in 1..Len(items) : compareFn(items[i], v) <= 0})
    IN Take(items, k) \o <<v>> \o Drop(items, k)

\* ItemCollection.findById / findIndexBy("version", ...): 0-based, -1 if absent.
FindIndex(items, normalized) ==
    IF \E i \in 1..Len(items) : items[i].version = normalized
    THEN (CHOOSE i \in 1..Len(items) : items[i].version = normalized) - 1
    ELSE -1

\* ItemCollection.at / Array.prototype.at: 0-based, negative from the end.
\* Only used where the index is in range.
At(items, i) == IF i >= 0 THEN items[i + 1] ELSE items[Len(items) + i + 1]

InRange(items, i) == -Len(items) <= i /\ i < Len(items)

\* get available
Available(items) == [i \in 1..Len(items) |-> items[i].version]

\* Migrate.indexOf of a label normalizeSemver accepts.
indexOf(items, version) == FindIndex(items, normalizeSemver(version))

\* findVersion(version)?.version, given indexOf(version).
VersionAt(items, index) == IF index > -1 THEN At(items, index).version ELSE Undefined

\* A faulty variant: the first element the filter keeps.
FirstVersionOf(items, kept, otherwise) ==
    IF kept = {} THEN otherwise
    ELSE items[CHOOSE i \in kept : \A j \in kept : i <= j].version

\* The last element of filter(pred).map(v => v.version), or `otherwise`
\* (the right-hand side of ??) when the filter keeps nothing.
LastVersionOf(items, kept, otherwise) ==
    IF kept = {} THEN otherwise
    ELSE items[CHOOSE i \in kept : \A j \in kept : j <= i].version

(***************************************************************************)
(* Planning: __upMeta and __downMeta, once fromVersionLabel is resolved    *)
(* (fromVersionLabel ??= await this.getActiveVersion()).  The result is a  *)
(* record: err names the error thrown ("" if none), plan tells whether a   *)
(* plan was returned (FALSE for the undefined of an empty collection).     *)
(***************************************************************************)
NoPlan(err) ==
    [err |-> err, plan |-> FALSE, fromIndex |-> -1, toIndex |-> -1,
     fromVersion |-> Undefined, toVersion |-> Undefined, isInitial |-> FALSE]

\* The return statement of __upMeta and of __downMeta.
PlanOf(items, from, toVersion, isInitial) ==
    [err |-> "", plan |-> TRUE,
     fromVersion |-> from.version,
     fromIndex |-> indexOf(items, from.version),
     toVersion |-> toVersion,
     toIndex |-> IF Truthy(toVersion) THEN indexOf(items, toVersion) ELSE -1,
     isInitial |-> isInitial]

\* A faulty variant: a label that is not registered is not reported.
FromErrorOfLenient(items, normalized) ==
    IF IsError(normalized) THEN "InvalidVersion" ELSE ""

FromErrorOf(items, normalized) ==
    IF IsError(normalized) THEN "InvalidVersion"
    ELSE IF FindIndex(items, normalized) = -1 THEN "VersionNotFound"
    ELSE ""

\* findVersion(fromVersionLabel, true) as used to resolve `from`: the error
\* it throws, "" if none.
FromError(items, fromVersionLabel) ==
    IF ~Truthy(fromVersionLabel) THEN ""
    ELSE FromErrorOf(items, normalizeSemver(fromVersionLabel))

\* const from = fromVersionLabel ? findVersion(...) : this.#versions.at(0),
\* when FromError is "".
From(items, fromVersionLabel) ==
    At(items, IF Truthy(fromVersionLabel) THEN indexOf(items, fromVersionLabel) ELSE 0)

\* A faulty variant: the last of the versions of a greater major.
NextMajorLast(items, later) == items[CHOOSE i \in later : \A j \in later : j <= i]

\* The first element of filter(v => v.major > from.major), the collection
\* being non-empty where this is used.
NextMajor(items, later) == items[CHOOSE i \in later : \A j \in later : i <= j]

SameMajor(items, version) == {i \in 1..Len(items) : items[i].major = version.major}

\* A faulty variant: an unregistered explicit target falls back to "from".
ExplicitOrFrom(items, target, from) ==
    IF indexOf(items, target) > -1 THEN VersionAt(items, indexOf(items, target))
    ELSE from.version

\* toVersion = this.findVersion(target)?.version for an explicit label: no
\* fallback to from.
ExplicitTarget(items, target, from) == VersionAt(items, indexOf(items, target))

\* toVersion of __upMeta.
UpTarget(items, target, from) ==
    IF target = Latest THEN At(items, -1).version
    ELSE IF target = Major THEN
        LET later == {i \in 1..Len(items) : items[i].major > from.major}
        IN IF later = {} THEN from.version
           ELSE LastVersionOf(items, SameMajor(items, NextMajor(items, later)),
                              from.version)
    ELSE IF target = Minor THEN
        LastVersionOf(items,
            {i \in 1..Len(items) :
                items[i].major = from.major /\ items[i].minor > from.minor},
            from.version)
    ELSE IF target = Patch THEN
        LastVersionOf(items,
            {i \in 1..Len(items) :
                /\ items[i].major = from.major
                /\ items[i].minor = from.minor
                /\ items[i].patch > from.patch},
            from.version)
    ELSE ExplicitTarget(items, target, from)

IsUpSentinel(target) == target \in {Latest, Major, Minor, Patch}

UpPlan(items, target, from, isInitial) ==
    PlanOf(items, from, UpTarget(items, target, from), isInitial)

UpMetaFrom(items, target, fromVersionLabel, err) ==
    IF err # "" THEN NoPlan(err)
    ELSE IF ~IsUpSentinel(target) /\ IsError(normalizeSemver(target))
         THEN NoPlan("InvalidVersion")
    ELSE UpPlan(items, target, From(items, fromVersionLabel),
                fromVersionLabel = Undefined)

\* __upMeta(target, fromVersionLabel)
upMeta(items, target, fromVersionLabel) ==
    IF Len(items) = 0 THEN NoPlan("")
    ELSE UpMetaFrom(items, target, fromVersionLabel,
                    FromError(items, fromVersionLabel))

\* A faulty variant: "major" stays within the major of "from".
DownTargetWithinMajor(items, target, from) ==
    LastVersionOf(items,
        {i \in 1..Len(items) :
            items[i].major = from.major /\ items[i].minor < from.minor},
        from.version)

\* A faulty variant: every downgrade goes to the lowest version.
DownTargetLowest(items, target, from) == At(items, 0).version

\* A faulty variant: "major", "minor" and "patch" go to the version just
\* below "from", whatever its major, minor and patch.
DownTargetNextBelow(items, target, from) ==
    IF target = Initial THEN At(items, 0).version
    ELSE IF target \in {Major, Minor, Patch} THEN
        IF FindIndex(items, from.version) > 0
        THEN At(items, FindIndex(items, from.version) - 1).version
        ELSE from.version
    ELSE ExplicitTarget(items, target, from)

\* A faulty variant: every downgrade is planned to the highest version.
DownTargetHighest(items, target, from) == At(items, -1).version

\* toVersion of __downMeta.
DownTarget(items, target, from) ==
    IF target = Initial THEN At(items, 0).version
    ELSE IF target = Major THEN
        LastVersionOf(items,
            {i \in 1..Len(items) : items[i].major < from.major}, from.version)
    ELSE IF target = Minor THEN
        LastVersionOf(items,
            {i \in 1..Len(items) :
                items[i].major = from.major /\ items[i].minor < from.minor},
            from.version)
    ELSE IF target = Patch THEN
        LastVersionOf(items,
            {i \in 1..Len(items) :
                /\ items[i].major = from.major
                /\ items[i].minor = from.minor
                /\ items[i].patch < from.patch},
            from.version)
    ELSE ExplicitTarget(items, target, from)

IsDownSentinel(target) == target \in {Initial, Major, Minor, Patch}

DownPlan(items, target, from) ==
    PlanOf(items, from, DownTarget(items, target, from), FALSE)

DownMetaFrom(items, target, fromVersionLabel, err) ==
    IF err # "" THEN NoPlan(err)
    ELSE IF ~IsDownSentinel(target) /\ IsError(normalizeSemver(target))
         THEN NoPlan("InvalidVersion")
    ELSE DownPlan(items, target, From(items, fromVersionLabel))

\* __downMeta(target, fromVersionLabel)
downMeta(items, target, fromVersionLabel) ==
    IF Len(items) = 0 THEN NoPlan("")
    ELSE IF ~Truthy(fromVersionLabel) THEN NoPlan("NoActiveVersion")
    ELSE DownMetaFrom(items, target, fromVersionLabel,
                      FromError(items, fromVersionLabel))

(***************************************************************************)
(* The engine's state                                                      *)
(***************************************************************************)
VARIABLES
    versions,   \* #versions.items: the registered Version records, sorted
    hasGetter,  \* whether options.getActiveVersion is configured
    hasSetter,  \* whether options.setActiveVersion is configured
    active,     \* #versions.active?.version: the in-memory marker
    store,      \* what the external store holds
    applied,    \* versions whose up action has run and was not reverted
    calls,      \* per caller: the up/down/uninstall call in progress or ended
    clean       \* no action, getter or setter has thrown so far

vars == <<versions, hasGetter, hasSetter, active, store, applied, calls, clean>>

\* The bound of the model: how many versions are registered at most.
MaxVersions == 4

\* Labels in the order they are registered (tests/migrate.test.ts registers
\* v4, v3, v2, v1; the second list has patch and minor siblings and a gap).
Registrations ==
    << << <<"v", "4">>, <<"v", "3">>, <<"v", "2">>, <<"v", "1">>, <<"v", "5">>,
          <<"v", "6">> >>,
       << <<"v", "2">>, <<"1", ".", "0", ".", "1">>, <<"v", "1">>,
          <<"2", ".", "1">>, <<"v", "4">>, <<"2", ".", "1", ".", "1">> >> >>

\* A well-formed label that is never registered.
Unregistered == <<"1", "2", ".", "3", "4", ".", "5", "6">>

Min(a, b) == IF a < b THEN a ELSE b

RECURSIVE Register(_, _)
\* addVersion of the first n labels of a list, into an empty collection.
Register(labels, n) ==
    IF n = 0 THEN <<>> ELSE Add(Register(labels, n - 1), Version(labels[n]))

Registries ==
    {Register(Registrations[r], n) :
        r \in 1..Len(Registrations),
        n \in 0..Min(MaxVersions, Len(Registrations[1]))}

Sentinels == {Latest, Initial, Major, Minor, Patch}

\* The targets callers pass: the sentinels, the labels as registered, and a
\* label that is not registered.
Targets ==
    Sentinels \cup {Unregistered}
        \cup {Registrations[r][n] :
                 r \in 1..Len(Registrations),
                 n \in 1..Min(MaxVersions, Len(Registrations[1]))}

Callers == {1}

IdleCall ==
    [op |-> "none", pc |-> "idle", target |-> Undefined, entry |-> Undefined,
     activeVersion |-> Undefined, fromIndex |-> -1, toIndex |-> -1,
     isInitial |-> FALSE, i |-> -1, successCounter |-> 0, trace |-> <<>>,
     status |-> "none", value |-> 0, repeat |-> FALSE,
     before |-> [versions |-> <<>>, active |-> Undefined, store |-> Undefined]]

\* A new Migrate(options) with its versions registered: nothing is active,
\* and either both the getter and the setter of a store are configured or
\* the active version is kept in memory.
Init ==
    /\ versions \in Registries
    /\ \E persisted \in BOOLEAN : hasGetter = persisted /\ hasSetter = persisted
    /\ active = Undefined
    /\ store = Undefined
    /\ applied = {}
    /\ calls = [c \in Callers |-> IdleCall]
    /\ clean = TRUE

(***************************************************************************)
(* getActiveVersion and setActiveVersion                                   *)
(***************************************************************************)
\* What getActiveVersion() returns when the getter (if any) does not throw:
\* a string, undefined, or InvalidVersion when normalizeSemver throws.
\* `version ?? undefined` turns null into undefined and keeps "".
getActiveVersion ==
    IF hasGetter
    THEN IF Truthy(store) THEN normalizeSemver(store)
         ELSE IF store = Null THEN Undefined
         ELSE store
    ELSE active

\* The outcomes of a call of the external getter, of the external setter and
\* of an up or down action: TRUE when it resolves, FALSE when it throws.
GetterOutcomes == IF hasGetter THEN BOOLEAN ELSE {TRUE}

SetterOutcomes == IF hasSetter THEN BOOLEAN ELSE {TRUE}

ActionOutcomes == BOOLEAN

\* A faulty variant: a version that is not a member becomes the marker.
MarkerOfAny(items, marker, resolved) ==
    IF IsError(resolved) THEN [err |-> "InvalidVersion", marker |-> marker]
    ELSE [err |-> "", marker |-> resolved]

\* A faulty variant: the marker is moved before the version is looked up.
MarkerOfEager(items, marker, resolved) ==
    IF IsError(resolved) THEN [err |-> "InvalidVersion", marker |-> marker]
    ELSE IF ~Truthy(resolved) \/ FindIndex(items, resolved) = -1
         THEN [err |-> "VersionNotFound", marker |-> resolved]
    ELSE [err |-> "", marker |-> resolved]

MarkerOf(items, marker, resolved) ==
    IF IsError(resolved) THEN [err |-> "InvalidVersion", marker |-> marker]
    ELSE IF ~Truthy(resolved) \/ FindIndex(items, resolved) = -1
         THEN [err |-> "VersionNotFound", marker |-> marker]
    ELSE [err |-> "", marker |-> resolved]

\* A faulty variant: "latest" and "initial" both resolve to the lowest.
SetMarkerLowest(items, marker, version, isInstance) ==
    IF version = Undefined THEN [err |-> "", marker |-> Undefined]
    ELSE MarkerOf(items, marker,
             IF isInstance THEN version
             ELSE IF version \in {Latest, Initial}
                  THEN (IF Len(items) > 0 THEN At(items, 0).version ELSE Undefined)
             ELSE normalizeSemver(version))

\* setActiveVersion(version) up to the external setter: the error thrown
\* ("" if none) and the marker afterwards.  `version` is undefined, a
\* sentinel or a label; a Version instance is passed as its version string.
SetMarker(items, marker, version, isInstance) ==
    IF version = Undefined THEN [err |-> "", marker |-> Undefined]
    ELSE MarkerOf(items, marker,
             IF isInstance THEN version
             ELSE IF version = Latest
                  THEN (IF Len(items) > 0 THEN At(items, -1).version ELSE Undefined)
             ELSE IF version = Initial
                  THEN (IF Len(items) > 0 THEN At(items, 0).version ELSE Undefined)
             ELSE normalizeSemver(version))

\* A faulty variant: the store takes the value although the setter failed.
StoreAfterAlways(set, ok) == IF set.err = "" /\ hasSetter THEN set.marker ELSE store

\* await this.#options.setActiveVersion?.(active, this.context): what the
\* store holds afterwards.
StoreAfter(set, ok) == IF set.err = "" /\ ok /\ hasSetter THEN set.marker ELSE store

(***************************************************************************)
(* Calls.  A call is a coroutine: each action below is one stretch of      *)
(* synchronous code, ending at an await of the getter, an action or the    *)
(* setter.                                                                 *)
(***************************************************************************)
Event(kind, index, ok) == [kind |-> kind, index |-> index, ok |-> ok]

Thrown(call, status) == [call EXCEPT !.pc = "done", !.status = status]

Returned(call, value) == [call EXCEPT !.pc = "done", !.status = "ok", !.value = value]

\* Whether a call repeats the one before it: the same operation with the
\* same target, called right after that one returned.
Repeats(last, op, target) ==
    last.op = op /\ last.target = target /\ last.pc = "done" /\ last.status = "ok"

\* up(target), down(target) or uninstall() is called.
Call(c, op, target) ==
    /\ calls[c].pc \in {"idle", "done"}
    /\ calls' = [calls EXCEPT ![c] =
           [IdleCall EXCEPT !.op = op, !.target = target,
                            !.entry = IF hasGetter THEN store ELSE active,
                            !.status = "pending",
                            !.repeat = Repeats(calls[c], op, target),
                            !.pc = CASE op = "up" -> "up_get"
                                     [] op = "down" -> "down_get"
                                     [] OTHER -> "un_get"]]
    /\ UNCHANGED <<versions, hasGetter, hasSetter, active, store, applied, clean>>

\* A faulty variant: the plan starts from the in-memory marker.
GotActiveInMemory(call, read, next, keep) ==
    IF IsError(read) THEN Thrown(call, "InvalidVersion")
    ELSE IF keep THEN [call EXCEPT !.pc = next, !.activeVersion = active]
    ELSE [call EXCEPT !.pc = next]

\* The call after an await of getActiveVersion() that resolved with `read`.
GotActive(call, read, next, keep) ==
    IF IsError(read) THEN Thrown(call, "InvalidVersion")
    ELSE IF keep THEN [call EXCEPT !.pc = next, !.activeVersion = read]
    ELSE [call EXCEPT !.pc = next]

\* up: const activeVersion = await this.getActiveVersion()
UpGet(c) ==
    /\ calls[c].pc = "up_get"
    /\ \E ok \in GetterOutcomes :
        /\ calls' = [calls EXCEPT ![c] =
               IF ok THEN GotActive(calls[c], getActiveVersion, "up_meta", TRUE)
               ELSE Thrown(calls[c], "GetterFailed")]
        /\ clean' = (clean /\ ok)
    /\ UNCHANGED <<versions, hasGetter, hasSetter, active, store, applied>>

\* A faulty variant: a plan that is missing passes for one.
PlanMissingNever(m) == FALSE

\* if (fromIndex === undefined || toIndex === undefined || fromIndex === -1
\*     || toIndex === -1) throw ...
PlanMissing(m) == ~m.plan \/ m.fromIndex = -1 \/ m.toIndex = -1

\* if (fromIndex >= toIndex && !isInitial) break job;
UpIsNoop(m) == m.fromIndex >= m.toIndex /\ ~m.isInitial

\* A faulty variant: "from" always inclusive.
UpFirstInclusive(fromIndex, isInitial) == fromIndex

\* The first index the loop of up() executes: "from" is exclusive unless
\* initial.
UpFirst(fromIndex, isInitial) == IF isInitial THEN fromIndex ELSE fromIndex + 1

WithPlan(call, m) ==
    [call EXCEPT !.fromIndex = m.fromIndex, !.toIndex = m.toIndex,
                 !.isInitial = m.isInitial]

UpLoop(call, first) ==
    IF first > call.toIndex THEN Returned(call, 0)
    ELSE [call EXCEPT !.pc = "up_log", !.i = first]

\* A faulty variant: up() enters its loop whatever the plan.
UpPlannedEager(call, m) ==
    IF m.err # "" THEN Thrown(call, m.err)
    ELSE IF PlanMissing(m) THEN Thrown(WithPlan(call, m), "TargetNotFound")
    ELSE [WithPlan(call, m) EXCEPT !.pc = "up_log", !.i = m.fromIndex]

\* The rest of up() once the plan m is known, up to the first step.
UpPlanned(call, m) ==
    IF m.err # "" THEN Thrown(call, m.err)
    ELSE IF PlanMissing(m) THEN Thrown(WithPlan(call, m), "TargetNotFound")
    ELSE IF UpIsNoop(m) THEN Returned(WithPlan(call, m), 0)
    ELSE UpLoop(WithPlan(call, m), UpFirst(m.fromIndex, m.isInitial))

UpMetaRead(call, read) ==
    IF IsError(read) THEN Thrown(call, "InvalidVersion")
    ELSE UpPlanned(call, upMeta(versions, call.target, read))

\* up: await this.__upMeta(target, activeVersion), the checks of the plan
\* and the entry of the loop.  __upMeta reads the active version again when
\* it was given undefined and the collection is not empty.
UpMeta(c) ==
    /\ calls[c].pc = "up_meta"
    /\ IF Len(versions) > 0 /\ calls[c].activeVersion = Undefined
       THEN \E ok \in GetterOutcomes :
              /\ calls' = [calls EXCEPT ![c] =
                     IF ok THEN UpMetaRead(calls[c], getActiveVersion)
                     ELSE Thrown(calls[c], "GetterFailed")]
              /\ clean' = (clean /\ ok)
       ELSE /\ calls' = [calls EXCEPT ![c] =
                   UpPlanned(calls[c],
                       upMeta(versions, calls[c].target, calls[c].activeVersion))]
            /\ clean' = clean
    /\ UNCHANGED <<versions, hasGetter, hasSetter, active, store, applied>>

\* up: the getActiveVersion() awaited for the "Upgrading from" log line.
UpLog(c) ==
    /\ calls[c].pc = "up_log"
    /\ \E ok \in GetterOutcomes :
        /\ calls' = [calls EXCEPT ![c] =
               IF ok THEN GotActive(calls[c], getActiveVersion, "up_act", FALSE)
               ELSE Thrown(calls[c], "GetterFailed")]
        /\ clean' = (clean /\ ok)
    /\ UNCHANGED <<versions, hasGetter, hasSetter, active, store, applied>>

\* const version = this.#versions.at(i)
StepVersion(items, i) == At(items, i).version

\* A faulty variant: the failure of an up action is swallowed.
UpActSwallowed(call) == [call EXCEPT !.pc = "up_set"]

\* catch (e) { throw new Error(`The upgrade to version ... failed`) }
UpActThrown(call) == Thrown(call, "UpgradeFailed")

\* up: await version.up(this.context)
UpAct(c) ==
    /\ calls[c].pc = "up_act"
    /\ InRange(versions, calls[c].i)
    /\ \E ok \in ActionOutcomes :
        /\ calls' = [calls EXCEPT ![c] =
               IF ok THEN [calls[c] EXCEPT !.pc = "up_set",
                              !.trace = Append(@, Event("up", calls[c].i, TRUE))]
               ELSE UpActThrown([calls[c] EXCEPT
                              !.trace = Append(@, Event("up", calls[c].i, FALSE))])]
        /\ applied' = IF ok THEN applied \cup {StepVersion(versions, calls[c].i)}
                      ELSE applied
        /\ clean' = (clean /\ ok)
    /\ UNCHANGED <<versions, hasGetter, hasSetter, active, store>>

\* for (...; i <= toIndex; i++): whether another iteration follows that of i.
UpGoesOn(i, toIndex) == i + 1 <= toIndex

\* The end of a loop iteration of up(): successCounter++, i++, and either
\* the next iteration or the return of successCounter.
UpStepDone(call) ==
    IF UpGoesOn(call.i, call.toIndex)
    THEN [call EXCEPT !.successCounter = @ + 1, !.i = @ + 1, !.pc = "up_log"]
    ELSE Returned([call EXCEPT !.successCounter = @ + 1, !.i = @ + 1],
                  call.successCounter + 1)

\* A faulty variant: the failure of the setter is swallowed.
UpSetSwallowed(call) == UpStepDone(call)

\* catch (e) { throw new Error(`The upgrade operation succeeded, but was
\* unable to save the upgraded version ...`) }
UpSetThrown(call) == Thrown(call, "PersistenceFailed")

\* A faulty variant: the version before the step's is persisted.
UpPersistedPrevious(items, i) == At(items, i - 1).version

\* The version up() hands to setActiveVersion after the step of index i.
UpPersisted(items, i) == At(items, i).version

UpSetDone(call, set, ok) ==
    IF set.err = "" /\ ok
    THEN UpStepDone([call EXCEPT !.trace = Append(@,
                        Event("set", FindIndex(versions, set.marker), TRUE))])
    ELSE UpSetThrown([call EXCEPT !.trace = Append(@,
                        Event("set", FindIndex(versions, set.marker), FALSE))])

UpSetWith(c, set) ==
    \E ok \in (IF set.err = "" THEN SetterOutcomes ELSE {TRUE}) :
        /\ active' = set.marker
        /\ store' = StoreAfter(set, ok)
        /\ calls' = [calls EXCEPT ![c] = UpSetDone(calls[c], set, ok)]
        /\ clean' = (clean /\ ok)

\* up: await this.setActiveVersion(version)
UpSet(c) ==
    /\ calls[c].pc = "up_set"
    /\ UpSetWith(c, SetMarker(versions, active,
                              UpPersisted(versions, calls[c].i), TRUE))
    /\ UNCHANGED <<versions, hasGetter, hasSetter, applied>>

\* The return or throw of down(): to the caller, or into uninstall(), which
\* goes on with its final step when its down("initial") returned.
DownEnds(call, status, value) ==
    IF call.op = "uninstall" /\ status = "ok"
    THEN [call EXCEPT !.pc = "un_final", !.successCounter = value]
    ELSE [call EXCEPT !.pc = "done", !.status = status, !.value = value]

\* A faulty variant: down() plans although no version is active.
DownGotAnyway(call, read) ==
    IF IsError(read) THEN DownEnds(call, "InvalidVersion", 0)
    ELSE [call EXCEPT !.pc = "down_meta", !.activeVersion = read]

DownGot(call, read) ==
    IF IsError(read) THEN DownEnds(call, "InvalidVersion", 0)
    ELSE IF ~Truthy(read) THEN DownEnds(call, "NoActiveVersion", 0)
    ELSE [call EXCEPT !.pc = "down_meta", !.activeVersion = read]

\* down: const activeVersion = await this.getActiveVersion(), and the throw
\* when there is none.
DownGet(c) ==
    /\ calls[c].pc = "down_get"
    /\ \E ok \in GetterOutcomes :
        /\ calls' = [calls EXCEPT ![c] =
               IF ok THEN DownGot(calls[c], getActiveVersion)
               ELSE DownEnds(calls[c], "GetterFailed", 0)]
        /\ clean' = (clean /\ ok)
    /\ UNCHANGED <<versions, hasGetter, hasSetter, active, store, applied>>

\* A faulty variant: the no-op of down() covers only the targets above.
DownIsNoopStrict(m) == m.fromIndex < m.toIndex

\* if (fromIndex <= toIndex) break job;
DownIsNoop(m) == m.fromIndex <= m.toIndex

\* The rest of down() once the plan m is known, up to the first step.
DownPlanned(call, m) ==
    IF m.err # "" THEN DownEnds(call, m.err, 0)
    ELSE IF PlanMissing(m) THEN DownEnds(WithPlan(call, m), "TargetNotFound", 0)
    ELSE IF DownIsNoop(m) THEN DownEnds(WithPlan(call, m), "ok", 0)
    ELSE [WithPlan(call, m) EXCEPT !.pc = "down_log", !.i = m.fromIndex]

\* down: await this.__downMeta(target, activeVersion), the checks of the
\* plan and the entry of the loop.  uninstall() calls down("initial").
DownMeta(c) ==
    /\ calls[c].pc = "down_meta"
    /\ calls' = [calls EXCEPT ![c] =
           DownPlanned(calls[c],
               downMeta(versions,
                        IF calls[c].op = "uninstall" THEN Initial ELSE calls[c].target,
                        calls[c].activeVersion))]
    /\ UNCHANGED <<versions, hasGetter, hasSetter, active, store, applied, clean>>

DownLogged(call, read) ==
    IF IsError(read) THEN DownEnds(call, "InvalidVersion", 0)
    ELSE [call EXCEPT !.pc = "down_act"]

\* down: the getActiveVersion() awaited for the "Downgrading from" log line.
DownLog(c) ==
    /\ calls[c].pc = "down_log"
    /\ \E ok \in GetterOutcomes :
        /\ calls' = [calls EXCEPT ![c] =
               IF ok THEN DownLogged(calls[c], getActiveVersion)
               ELSE DownEnds(calls[c], "GetterFailed", 0)]
        /\ clean' = (clean /\ ok)
    /\ UNCHANGED <<versions, hasGetter, hasSetter, active, store, applied>>

\* A faulty variant: the failure of a down action is swallowed.
DownActSwallowed(call) == [call EXCEPT !.pc = "down_set"]

\* catch (e) { throw new Error(`The downgrade to version ... failed`) }
DownActThrown(call) == DownEnds(call, "DowngradeFailed", 0)

\* down: await version.down(this.context), version being the one at index i.
DownAct(c) ==
    /\ calls[c].pc = "down_act"
    /\ InRange(versions, calls[c].i)
    /\ \E ok \in ActionOutcomes :
        /\ calls' = [calls EXCEPT ![c] =
               IF ok THEN [calls[c] EXCEPT !.pc = "down_set",
                              !.trace = Append(@, Event("down", calls[c].i, TRUE))]
               ELSE DownActThrown([calls[c] EXCEPT
                              !.trace = Append(@, Event("down", calls[c].i, FALSE))])]
        /\ applied' = IF ok THEN applied \ {StepVersion(versions, calls[c].i)}
                      ELSE applied
        /\ clean' = (clean /\ ok)
    /\ UNCHANGED <<versions, hasGetter, hasSetter, active, store>>

\* A faulty variant: the loop of down() runs the target's step as well.
DownGoesOnInclusive(i, toIndex) == i - 1 >= toIndex

\* for (...; i > toIndex; i--): whether another iteration follows that of i.
DownGoesOn(i, toIndex) == i - 1 > toIndex

\* The end of a loop iteration of down(): successCounter++, i--, and either
\* the next iteration or the return of successCounter.
DownStepDone(call) ==
    IF DownGoesOn(call.i, call.toIndex)
    THEN [call EXCEPT !.successCounter = @ + 1, !.i = @ - 1, !.pc = "down_log"]
    ELSE DownEnds([call EXCEPT !.successCounter = @ + 1, !.i = @ - 1],
                  "ok", call.successCounter + 1)

\* catch (e) { throw new Error(`The downgrade operation succeeded, but was
\* unable to save the downgraded version ...`) }
DownSetThrown(call) == DownEnds(call, "PersistenceFailed", 0)

\* A faulty variant: the version of the step itself is persisted.
DownPersistedSame(items, i) == At(items, i).version

\* A faulty variant: the step down to the lowest version clears the marker.
DownPersistedUnset(items, i) ==
    IF i >= 2 /\ InRange(items, i - 1) THEN At(items, i - 1).version ELSE Undefined

\* const target = this.#versions.at(i - 1), and the target?.version that
\* down() hands to setActiveVersion after the step of index i.
DownPersisted(items, i) ==
    IF i >= 1 /\ InRange(items, i - 1) THEN At(items, i - 1).version ELSE Undefined

DownSetDone(call, set, ok) ==
    IF set.err = "" /\ ok
    THEN DownStepDone([call EXCEPT !.trace = Append(@,
                          Event("set", FindIndex(versions, set.marker), TRUE))])
    ELSE DownSetThrown([call EXCEPT !.trace = Append(@,
                          Event("set", FindIndex(versions, set.marker), FALSE))])

DownSetWith(c, set) ==
    \E ok \in (IF set.err = "" THEN SetterOutcomes ELSE {TRUE}) :
        /\ active' = set.marker
        /\ store' = StoreAfter(set, ok)
        /\ calls' = [calls EXCEPT ![c] = DownSetDone(calls[c], set, ok)]
        /\ clean' = (clean /\ ok)

\* down: await this.setActiveVersion(target?.version)
DownSet(c) ==
    /\ calls[c].pc = "down_set"
    /\ DownSetWith(c, SetMarker(versions, active,
                                DownPersisted(versions, calls[c].i), FALSE))
    /\ UNCHANGED <<versions, hasGetter, hasSetter, applied>>

\* A faulty variant: uninstall() never takes its early return.
UninstallNeverNoop(read) == FALSE

\* if ((await this.getActiveVersion()) === undefined) return 0;
UninstallIsNoop(read) == read = Undefined

UnGot(call, read) ==
    IF IsError(read) THEN Thrown(call, "InvalidVersion")
    ELSE IF UninstallIsNoop(read) THEN Returned(call, 0)
    ELSE [call EXCEPT !.pc = "down_get"]

\* uninstall: the check for an active version; without one it returns 0,
\* otherwise it calls down("initial").
UnGet(c) ==
    /\ calls[c].pc = "un_get"
    /\ \E ok \in GetterOutcomes :
        /\ calls' = [calls EXCEPT ![c] =
               IF ok THEN UnGot(calls[c], getActiveVersion)
               ELSE Thrown(calls[c], "GetterFailed")]
        /\ clean' = (clean /\ ok)
    /\ UNCHANGED <<versions, hasGetter, hasSetter, active, store, applied>>

\* A faulty variant: the final down step is not counted.
UnFinalUncounted(successCounter) == successCounter

\* successCounter++ after the final down step.
UnFinalCount(successCounter) == successCounter + 1

\* A faulty variant: the failure of the final down step is swallowed.
UnFinalSwallowed(call) == [call EXCEPT !.pc = "un_clear"]

\* catch (e) { throw new Error(`The uninstall failed ...`) }
UnFinalThrown(call) == Thrown(call, "UninstallFailed")

\* uninstall: await this.#versions.at(0)!.down(this.context), which throws
\* on an empty collection as well.
UnFinal(c) ==
    /\ calls[c].pc = "un_final"
    /\ \E ok \in (IF Len(versions) > 0 THEN ActionOutcomes ELSE {FALSE}) :
        /\ calls' = [calls EXCEPT ![c] =
               IF ok THEN [calls[c] EXCEPT !.pc = "un_clear",
                              !.successCounter = UnFinalCount(@),
                              !.trace = Append(@, Event("down", 0, TRUE))]
               ELSE UnFinalThrown([calls[c] EXCEPT
                              !.trace = Append(@, Event("down", 0, FALSE))])]
        /\ applied' = IF ok THEN applied \ {StepVersion(versions, 0)} ELSE applied
        /\ clean' = (clean /\ ok)
    /\ UNCHANGED <<versions, hasGetter, hasSetter, active, store>>

UnCleared(call, set, ok) ==
    IF ok
    THEN Returned([call EXCEPT !.trace = Append(@,
                      Event("set", FindIndex(versions, set.marker), TRUE))],
                  call.successCounter)
    ELSE Thrown([call EXCEPT !.trace = Append(@,
                    Event("set", FindIndex(versions, set.marker), FALSE))],
                "PersistenceFailed")

UnClearWith(c, set) ==
    \E ok \in SetterOutcomes :
        /\ active' = set.marker
        /\ store' = StoreAfter(set, ok)
        /\ calls' = [calls EXCEPT ![c] = UnCleared(calls[c], set, ok)]
        /\ clean' = (clean /\ ok)

\* uninstall: await this.setActiveVersion(undefined), then the return.
UnClear(c) ==
    /\ calls[c].pc = "un_clear"
    /\ UnClearWith(c, SetMarker(versions, active, Undefined, FALSE))
    /\ UNCHANGED <<versions, hasGetter, hasSetter, applied>>

Next ==
    \E c \in Callers :
        \/ \E target \in Targets : Call(c, "up", target)
        \/ \E target \in Targets : Call(c, "down", target)
        \/ Call(c, "uninstall", Undefined)
        \/ UpGet(c)
        \/ UpMeta(c)
        \/ UpLog(c)
        \/ UpAct(c)
        \/ UpSet(c)
        \/ DownGet(c)
        \/ DownMeta(c)
        \/ DownLog(c)
        \/ DownAct(c)
        \/ DownSet(c)
        \/ UnGet(c)
        \/ UnFinal(c)
        \/ UnClear(c)

Spec == Init /\ [][Next]_vars

(***************************************************************************)
(* Planning on its own: __upMeta(target, fromVersionLabel) and             *)
(* __downMeta(target, fromVersionLabel) called on an engine whose versions *)
(* are registered and whose active version was set.                        *)
(***************************************************************************)
\* Labels with a gap in the patches, in the minors and in the majors
\* (tests/migrate.test.ts leaves majors 5 and 6 out).
PlanLabels ==
    { <<"v", "1">>, <<"1", ".", "0", ".", "1">>, <<"1", ".", "0", ".", "3">>,
      <<"1", ".", "2">>, <<"1", ".", "2", ".", "1">>, <<"v", "2">>,
      <<"7", ".", "8", ".", "9">>, <<"7", ".", "9">>,
      <<"1", "0", ".", "1", "1", ".", "1", "2">> }

RECURSIVE RegisterAll(_)
\* addVersion of every label of a set, into an empty collection.
RegisterAll(labels) ==
    IF labels = {} THEN <<>>
    ELSE Add(RegisterAll(labels \ {CHOOSE l \in labels : TRUE}),
             Version(CHOOSE l \in labels : TRUE))

PlanRegistries ==
    {RegisterAll(labels) :
        labels \in {some \in SUBSET PlanLabels : Cardinality(some) <= MaxVersions}}

PlanTargets == Sentinels \cup {Unregistered, <<"1", ".", "2">>}

\* The from-labels passed: none (the active version is read), a label that
\* is not registered, and labels of the set above.
PlanFroms ==
    {Undefined, Unregistered, <<"v", "1">>, <<"1", ".", "2", ".", "1">>,
     <<"7", ".", "8", ".", "9">>}

\* A call of __upMeta or __downMeta that has not run yet.
PlanCall(op, target, fromVersionLabel) ==
    [IdleCall EXCEPT !.op = op, !.pc = "plan", !.target = target,
                     !.activeVersion = fromVersionLabel, !.status = "pending"]

PlanCalls ==
    {PlanCall(op, target, fromVersionLabel) :
        op \in {"upMeta", "downMeta"}, target \in PlanTargets,
        fromVersionLabel \in PlanFroms}

\* An engine with versions registered, the active version unset or set to
\* one of them (setActiveVersion), and a call of a planner about to run.
PlanInit ==
    /\ versions \in PlanRegistries
    /\ \E persisted \in BOOLEAN : hasGetter = persisted /\ hasSetter = persisted
    /\ active \in {Undefined} \cup {versions[i].version : i \in 1..Len(versions)}
    /\ store = IF hasSetter THEN active ELSE Undefined
    /\ applied = {}
    /\ calls \in [Callers -> PlanCalls]
    /\ clean = TRUE

\* return { fromVersion, fromIndex, toVersion, toIndex, isInitial }, return
\* undefined, or the throw of the planner.
PlanReturned(call, m) ==
    IF m.err # "" THEN Thrown(call, m.err) ELSE Returned(WithPlan(call, m), m)

UpMetaResolved(call, read) ==
    IF IsError(read) THEN Thrown(call, "InvalidVersion")
    ELSE PlanReturned(call, upMeta(versions, call.target, read))

DownMetaResolved(call, read) ==
    IF IsError(read) THEN Thrown(call, "InvalidVersion")
    ELSE PlanReturned(call, downMeta(versions, call.target, read))

\* __upMeta(target, fromVersionLabel): fromVersionLabel ??= await
\* this.getActiveVersion() unless the collection is empty.
UpMetaCall(c) ==
    /\ calls[c].pc = "plan" /\ calls[c].op = "upMeta"
    /\ IF Len(versions) > 0 /\ calls[c].activeVersion = Undefined
       THEN \E ok \in GetterOutcomes :
              /\ calls' = [calls EXCEPT ![c] =
                     IF ok THEN UpMetaResolved(calls[c], getActiveVersion)
                     ELSE Thrown(calls[c], "GetterFailed")]
              /\ clean' = (clean /\ ok)
       ELSE /\ calls' = [calls EXCEPT ![c] =
                   PlanReturned(calls[c],
                       upMeta(versions, calls[c].target, calls[c].activeVersion))]
            /\ clean' = clean
    /\ UNCHANGED <<versions, hasGetter, hasSetter, active, store, applied>>

\* __downMeta(target, fromVersionLabel), likewise.
DownMetaCall(c) ==
    /\ calls[c].pc = "plan" /\ calls[c].op = "downMeta"
    /\ IF Len(versions) > 0 /\ calls[c].activeVersion = Undefined
       THEN \E ok \in GetterOutcomes :
              /\ calls' = [calls EXCEPT ![c] =
                     IF ok THEN DownMetaResolved(calls[c], getActiveVersion)
                     ELSE Thrown(calls[c], "GetterFailed")]
              /\ clean' = (clean /\ ok)
       ELSE /\ calls' = [calls EXCEPT ![c] =
                   PlanReturned(calls[c],
                       downMeta(versions, calls[c].target, calls[c].activeVersion))]
            /\ clean' = clean
    /\ UNCHANGED <<versions, hasGetter, hasSetter, active, store, applied>>

PlanNext ==
    \E c \in Callers :
        \/ UpMetaCall(c)
        \/ DownMetaCall(c)

PlanSpec == PlanInit /\ [][PlanNext]_vars

(***************************************************************************)
(* An engine on an external store (getActiveVersion and setActiveVersion   *)
(* options) that another party writes between the calls of the engine.     *)
(***************************************************************************)
\* No call of the engine is under way.
Quiescent == \A c \in Callers : calls[c].pc \in {"idle", "done"}

\* The versions whose up action ran when the active one was reached.
AppliedUpTo(items, marker) ==
    {items[i].version : i \in 1..(FindIndex(items, marker) + 1)}

\* What the store may hold: undefined, null or "" for no active version,
\* a registered version, or a well-formed label that is not registered.
StoreValues(items) ==
    {Undefined, Null, <<>>, Unregistered}
        \cup {items[i].version : i \in 1..Len(items)}

StoreTargets == {Latest, Initial, Major, Minor, <<"v", "2">>}

StoreInit ==
    /\ versions \in Registries
    /\ hasGetter = TRUE
    /\ hasSetter = TRUE
    /\ active = Undefined
    /\ store \in StoreValues(versions)
    /\ applied = AppliedUpTo(versions, store)
    /\ calls = [c \in Callers |-> IdleCall]
    /\ clean = TRUE

\* The store is written out-of-band while no call of the engine runs; the
\* call after it does not repeat the one before it.
StoreWrite(value) ==
    /\ Quiescent
    /\ store # value
    /\ store' = value
    /\ calls' = [c \in Callers |-> IdleCall]
    /\ UNCHANGED <<versions, hasGetter, hasSetter, active, applied, clean>>

StoreNext ==
    \/ \E value \in StoreValues(versions) : StoreWrite(value)
    \/ \E c \in Callers :
        \/ \E target \in StoreTargets : Call(c, "up", target)
        \/ \E target \in StoreTargets : Call(c, "down", target)
        \/ Call(c, "uninstall", Undefined)
        \/ UpGet(c)
        \/ UpMeta(c)
        \/ UpLog(c)
        \/ UpAct(c)
        \/ UpSet(c)
        \/ DownGet(c)
        \/ DownMeta(c)
        \/ DownLog(c)
        \/ DownAct(c)
        \/ DownSet(c)
        \/ UnGet(c)
        \/ UnFinal(c)
        \/ UnClear(c)

StoreSpec == StoreInit /\ [][StoreNext]_vars

(***************************************************************************)
(* The loop of README.md: do { result = await app.down(); } while (result) *)
(* on an engine whose versions are registered and upgraded up to the       *)
(* active one.  down() has the default target "major".                     *)
(***************************************************************************)
DownLoopInit ==
    /\ versions \in PlanRegistries
    /\ \E persisted \in BOOLEAN : hasGetter = persisted /\ hasSetter = persisted
    /\ active \in {Undefined} \cup {versions[i].version : i \in 1..Len(versions)}
    /\ store = IF hasSetter THEN active ELSE Undefined
    /\ applied = AppliedUpTo(versions, active)
    /\ calls = [c \in Callers |-> IdleCall]
    /\ clean = TRUE

\* while (result): the loop goes on after a call that returned non-zero.
DownLoopGoesOn(call) ==
    call.pc = "idle" \/ (call.pc = "done" /\ call.status = "ok" /\ call.value # 0)

\* result = await app.down()
DownLoopCall(c) == DownLoopGoesOn(calls[c]) /\ Call(c, "down", Major)

DownLoopNext ==
    \E c \in Callers :
        \/ DownLoopCall(c)
        \/ DownGet(c)
        \/ DownMeta(c)
        \/ DownLog(c)
        \/ DownAct(c)
        \/ DownSet(c)

\* Every await of the loop settles (the getter, the actions and the setter
\* resolve or throw) and the loop calls again while the result is not 0:
\* weak fairness of DownLoopNext, whose steps all change the call and which
\* is enabled exactly while the loop goes on or a call is under way.
DownLoopFair ==
    \/ []<>(\A c \in Callers :
               ~DownLoopGoesOn(calls[c]) /\ calls[c].pc = "done")
    \/ []<><<DownLoopNext>>_vars

DownLoopSpec == DownLoopInit /\ [][DownLoopNext]_vars /\ DownLoopFair

(***************************************************************************)
(* The collection on its own: addVersion(version, up, down) and            *)
(* setActiveVersion(version) called in any order on a new engine.          *)
(***************************************************************************)
\* The labels tests/migrate.test.ts registers in its sanity check, another
\* spelling of one of them, and one that is no version.
AddLabels ==
    { <<"v", "4">>, <<"v", "1">>, <<"v", "2">>, <<"3", ".", "5">>,
      <<"v", "3", ".", "5", ".", "0", "-", "f", "o", "o">>,
      <<"1", ".", "0", ".", "0">>,
      <<"x">> }

\* What callers pass to setActiveVersion.
MarkTargets ==
    {Undefined, Latest, Initial, Unregistered, <<"v", "2">>, <<"3", ".", "5">>,
     <<"1", ".", "0", ".", "0">>, <<"x">>}

\* What a call finds when it is entered.
Snapshot == [versions |-> versions, active |-> active, store |-> store]

ApiCall(op, target) ==
    [IdleCall EXCEPT !.op = op, !.target = target, !.status = "pending",
                     !.before = Snapshot]

CollectionInit ==
    /\ versions = <<>>
    /\ \E persisted \in BOOLEAN : hasGetter = persisted /\ hasSetter = persisted
    /\ active = Undefined
    /\ store = Undefined
    /\ applied = {}
    /\ calls = [c \in Callers |-> IdleCall]
    /\ clean = TRUE

\* A faulty variant: a version that exists already is added again.
AddErrorOfNone(items, thrown, label) ==
    IF thrown # <<>> THEN thrown[1] ELSE ""

\* What addVersion throws, "" if nothing: the error of new Version(...), or
\* "Version already exists" when findById finds the normalized label.
AddErrorOf(items, thrown, label) ==
    IF thrown # <<>> THEN thrown[1]
    ELSE IF FindIndex(items, normalizeSemver(label)) # -1 THEN "DuplicateVersion"
    ELSE ""

AddError(items, label) == AddErrorOf(items, VersionError(label), label)

AddVersionWith(c, label, err) ==
    /\ err = "" => Len(versions) < MaxVersions
    /\ versions' = IF err = "" THEN Add(versions, Version(label)) ELSE versions
    /\ calls' = [calls EXCEPT ![c] =
           IF err = "" THEN Returned(ApiCall("addVersion", label), 0)
           ELSE Thrown(ApiCall("addVersion", label), err)]

\* addVersion(version, up, down)
AddVersion(c, label) ==
    /\ calls[c].pc \in {"idle", "done"}
    /\ AddVersionWith(c, label, AddError(versions, label))
    /\ UNCHANGED <<hasGetter, hasSetter, active, store, applied, clean>>

\* setActiveVersion up to the call of the external setter: the marker is
\* synced, const active = this.#versions.active?.version is read and handed
\* to the setter, whose completion is awaited.
MarkWith(c, target, set) ==
    /\ active' = set.marker
    /\ calls' = [calls EXCEPT ![c] =
           IF set.err # "" THEN Thrown(ApiCall("setActiveVersion", target), set.err)
           ELSE [ApiCall("setActiveVersion", target) EXCEPT
                    !.pc = "mark_set", !.activeVersion = set.marker,
                    !.trace = <<Event("mark", FindIndex(versions, set.marker), TRUE)>>]]

\* setActiveVersion(version), the synchronous part
MarkActive(c, target) ==
    /\ calls[c].pc \in {"idle", "done"}
    /\ MarkWith(c, target, SetMarker(versions, active, target, FALSE))
    /\ UNCHANGED <<versions, hasGetter, hasSetter, store, applied, clean>>

\* The call after the await of the setter, which is called only if it is
\* configured: return active, or the setter's error.
MarkSaved(call, ok) ==
    IF ~hasSetter THEN Returned(call, call.activeVersion)
    ELSE IF ok
         THEN Returned([call EXCEPT !.trace = Append(@,
                           Event("set", FindIndex(versions, call.activeVersion), TRUE))],
                       call.activeVersion)
    ELSE Thrown([call EXCEPT !.trace = Append(@,
                    Event("set", FindIndex(versions, call.activeVersion), FALSE))],
                "SetterFailed")

\* A faulty variant: a failed setter puts the in-memory marker back.
MarkRolledBack(marker, previous, ok) == IF ok THEN marker ELSE previous

\* The in-memory marker after the await of the setter: the rejection
\* propagates out of setActiveVersion, and nothing undoes the sync made
\* before the setter was called.
MarkKept(marker, previous, ok) == marker

\* setActiveVersion(version): await this.#options.setActiveVersion?.(active,
\* this.context), and the return.
MarkSet(c) ==
    /\ calls[c].pc = "mark_set"
    /\ \E ok \in SetterOutcomes :
        /\ store' = IF ok /\ hasSetter THEN calls[c].activeVersion ELSE store
        /\ active' = MarkKept(active, calls[c].before.active, ok)
        /\ calls' = [calls EXCEPT ![c] = MarkSaved(calls[c], ok)]
        /\ clean' = (clean /\ ok)
    /\ UNCHANGED <<versions, hasGetter, hasSetter, applied>>

CollectionNext ==
    \E c \in Callers :
        \/ \E label \in AddLabels : AddVersion(c, label)
        \/ \E target \in MarkTargets : MarkActive(c, target)
        \/ MarkSet(c)

CollectionSpec == CollectionInit /\ [][CollectionNext]_vars

(***************************************************************************)
(* The same calls on an engine constructed with any of the four            *)
(* combinations of the getActiveVersion and setActiveVersion options.      *)
(***************************************************************************)
OptionsInit ==
    /\ versions = <<>>
    /\ hasGetter \in BOOLEAN
    /\ hasSetter \in BOOLEAN
    /\ active = Undefined
    /\ store = Undefined
    /\ applied = {}
    /\ calls = [c \in Callers |-> IdleCall]
    /\ clean = TRUE

OptionsSpec == OptionsInit /\ [][CollectionNext]_vars

(***************************************************************************)
(* Two up("latest") calls on the same engine and store, not serialized by  *)
(* the caller: every await of up() is a point where the other call may     *)
(* run.                                                                    *)
(***************************************************************************)
RaceCallers == {1, 2}

RaceInit ==
    /\ versions \in {Register(Registrations[1], n) : n \in 0..MaxVersions}
    /\ \E persisted \in BOOLEAN : hasGetter = persisted /\ hasSetter = persisted
    /\ active = Undefined
    /\ store = Undefined
    /\ applied = {}
    /\ calls = [c \in RaceCallers |-> IdleCall]
    /\ clean = TRUE

RaceNext ==
    \E c \in RaceCallers :
        \/ Call(c, "up", Latest)
        \/ UpGet(c)
        \/ UpMeta(c)
        \/ UpLog(c)
        \/ UpAct(c)
        \/ UpSet(c)

RaceSpec == RaceInit /\ [][RaceNext]_vars

(***************************************************************************)
(* Everything together: addVersion, setActiveVersion, up, down and         *)
(* uninstall called one after the other, in any order, on a new engine.    *)
(***************************************************************************)
MixedLabels ==
    { <<"v", "1">>, <<"1", ".", "0", ".", "1">>, <<"v", "2">>, <<"x">> }

MixedMarks == {Undefined, Latest, Initial, Unregistered, <<"v", "2">>}

MixedTargets == {Latest, Initial, Major, Unregistered, <<"v", "2">>}

MixedNext ==
    \E c \in Callers :
        \/ \E label \in MixedLabels : AddVersion(c, label)
        \/ \E target \in MixedMarks : MarkActive(c, target)
        \/ MarkSet(c)
        \/ \E target \in MixedTargets : Call(c, "up", target)
        \/ \E target \in MixedTargets : Call(c, "down", target)
        \/ Call(c, "uninstall", Undefined)
        \/ UpGet(c)
        \/ UpMeta(c)
        \/ UpLog(c)
        \/ UpAct(c)
        \/ UpSet(c)
        \/ DownGet(c)
        \/ DownMeta(c)
        \/ DownLog(c)
        \/ DownAct(c)
        \/ DownSet(c)
        \/ UnGet(c)
        \/ UnFinal(c)
        \/ UnClear(c)

MixedSpec == CollectionInit /\ [][MixedNext]_vars

(***************************************************************************)
(* The helpers of semver.ts on their own: compareSemver called on the      *)
(* pairs of three strings, and normalizeSemver, parseSemver and            *)
(* normalizeSemver again called on one string.                             *)
(***************************************************************************)
\* Versions with and without build metadata, another spelling of 1.0.0,
\* prereleases of one and two identifiers, numeric, lower-case and
\* upper-case ones, the versions of tests/migrate.test.ts and a string
\* parseSemver rejects.
CompareInputs ==
    { <<"1", ".", "0", ".", "0">>, <<"1", ".", "0", ".", "0", "+", "a">>,
      <<"1", ".", "0", ".", "0", "+", "b">>, <<"v", "1">>,
      <<"1", ".", "0", ".", "0", "-", "a">>,
      <<"1", ".", "0", ".", "0", "-", "a", "+", "b">>,
      <<"1", ".", "0", ".", "0", "-", "a", ".", "1">>,
      <<"1", ".", "0", ".", "0", "-", "a", ".", "b">>,
      <<"1", ".", "0", ".", "0", "-", "2">>,
      <<"1", ".", "0", ".", "0", "-", "0", "2">>,
      <<"1", ".", "0", ".", "0", "-", "1", "0">>,
      <<"1", ".", "0", ".", "0", "-", "B">>,
      <<"3", ".", "5", ".", "0", "-", "f", "o", "o">>,
      <<"3", ".", "5", ".", "0">>, <<"1", "-", "a", "+">> }

\* The examples of normalizeSemver's documentation, partial and complete
\* versions, tails with "+" and "_", and strings that are no version.
NormalizeInputs ==
    { <<"v", "1", ".", "2">>, <<"7">>,
      <<"1", ".", "2", ".", "3", "-", "r", "c", ".", "1", "+", "b">>,
      <<"7", "-", "r", "c", ".", "1">>, <<"V", "2">>, <<"1">>,
      <<"1", ".", "0", ".", "0">>, <<"1", "+", "b">>,
      <<"1", "-", "a", "+", "b">>, <<"1", "-", "a", "+", "b", "+", "c">>,
      <<"1", "-", "a", "+">>, <<"1", "-", "+", "b">>,
      <<"1", "-", "a", "_", "b">>, <<"0", "1">>, <<"1", ".", "2", "-", "3">>,
      <<"1", ".", "2", ".", "3", ".", "4">>, <<"v", "v", "1">>, <<"x">>, <<>>,
      <<"1", ".">>, <<"+", "b">>, <<"1", "-">> }

CompareCall(a, b, c) ==
    [op |-> "compareSemver", pc |-> "compare", a |-> a, b |-> b, c |-> c,
     status |-> "pending", value |-> <<>>]

NormalizeCall(version) ==
    [op |-> "normalizeSemver", pc |-> "normalize", version |-> version,
     status |-> "pending", normalized |-> Undefined, parsed |-> Undefined,
     again |-> Undefined]

SemverCalls ==
    {CompareCall(a, b, c) : a \in CompareInputs, b \in CompareInputs, c \in CompareInputs}
        \cup {NormalizeCall(version) : version \in NormalizeInputs}

SemverInit ==
    /\ versions = <<>>
    /\ hasGetter = FALSE
    /\ hasSetter = FALSE
    /\ active = Undefined
    /\ store = Undefined
    /\ applied = {}
    /\ calls \in [Callers -> SemverCalls]
    /\ clean = TRUE

\* What parseSemver throws for one of the strings, "" if it accepts them.
ParseErrorOf(parsed) ==
    IF \E i \in 1..Len(parsed) : parsed[i] \in {InvalidVersion} THEN "InvalidVersion"
    ELSE IF \E i \in 1..Len(parsed) : parsed[i] \in {InvalidSemVer} THEN "InvalidSemVer"
    ELSE ""

Compared(call, err) ==
    IF err # "" THEN Thrown(call, err)
    ELSE Returned(call,
             [aa |-> compareSemver(call.a, call.a),
              ab |-> compareSemver(call.a, call.b),
              ba |-> compareSemver(call.b, call.a),
              bc |-> compareSemver(call.b, call.c),
              ac |-> compareSemver(call.a, call.c)])

\* compareSemver(a, a), (a, b), (b, a), (b, c) and (a, c)
Compare(c) ==
    /\ calls[c].pc = "compare"
    /\ calls' = [calls EXCEPT ![c] =
           Compared(calls[c],
               ParseErrorOf(<<parseSemver(calls[c].a), parseSemver(calls[c].b),
                              parseSemver(calls[c].c)>>))]
    /\ UNCHANGED <<versions, hasGetter, hasSetter, active, store, applied, clean>>

Normalized(call, normalized) ==
    IF IsError(normalized) THEN Thrown(call, "InvalidVersion")
    ELSE [call EXCEPT !.pc = "parse", !.normalized = normalized]

\* normalizeSemver(version)
Normalize(c) ==
    /\ calls[c].pc = "normalize"
    /\ calls' = [calls EXCEPT ![c] =
           Normalized(calls[c], normalizeSemver(calls[c].version))]
    /\ UNCHANGED <<versions, hasGetter, hasSetter, active, store, applied, clean>>

\* parseSemver of the normalized string: the record, or the error thrown.
Parse(c) ==
    /\ calls[c].pc = "parse"
    /\ calls' = [calls EXCEPT ![c] =
           [@ EXCEPT !.pc = "normalize_again",
                     !.parsed = parseSemver(calls[c].normalized)]]
    /\ UNCHANGED <<versions, hasGetter, hasSetter, active, store, applied, clean>>

\* normalizeSemver of the normalized string
NormalizeAgain(c) ==
    /\ calls[c].pc = "normalize_again"
    /\ calls' = [calls EXCEPT ![c] =
           [@ EXCEPT !.pc = "done", !.status = "ok",
                     !.again = normalizeSemver(calls[c].normalized)]]
    /\ UNCHANGED <<versions, hasGetter, hasSetter, active, store, applied, clean>>

SemverNext ==
    \E c \in Callers :
        \/ Compare(c)
        \/ Normalize(c)
        \/ Parse(c)
        \/ NormalizeAgain(c)

SemverSpec == SemverInit /\ [][SemverNext]_vars

(***************************************************************************)
(* Properties                                                              *)
(***************************************************************************)
\* The active version as a caller observes it: the store's when a store is
\* configured, the in-memory marker otherwise.
Marker == IF hasGetter THEN store ELSE active

ActiveIndex == FindIndex(versions, Marker)

IndexAtEntry(call) == FindIndex(versions, call.entry)

UpsOf(call) == SelectSeq(call.trace, LAMBDA e : e.kind = "up")

DownsOf(call) == SelectSeq(call.trace, LAMBDA e : e.kind = "down")

Ascending(first, n) == [k \in 1..n |-> Event("up", first + k - 1, TRUE)]

Descending(first, n) == [k \in 1..n |-> Event("down", first - k + 1, TRUE)]

\* n steps of down() from index `first`: the down of i, then the persist
\* of i - 1.
DescendingSteps(first, n) ==
    [k \in 1..(2 * n) |->
        IF k % 2 = 1 THEN Event("down", first - ((k - 1) \div 2), TRUE)
        ELSE Event("set", first - (k \div 2), TRUE)]

CountBetween(first, last) == IF last >= first THEN last - first + 1 ELSE 0

\* C1: as long as no getter, setter or action has failed, whenever no call
\* is running the versions whose up action is applied and not reverted are
\* exactly those at sorted indices 0..index of the active version, and none
\* when no version is active.
PrefixConsistency ==
    (clean /\ Quiescent) =>
        applied = {At(versions, k).version : k \in 0..ActiveIndex}

\* A clean history that went up and then came down by at least one step to
\* a version above the lowest.
PrefixConsistencyReached ==
    /\ clean
    /\ calls[1].pc = "done" /\ calls[1].op = "down" /\ calls[1].status = "ok"
    /\ calls[1].value >= 1
    /\ ActiveIndex >= 1

SuccessfulUp(call) == call.op = "up" /\ call.pc = "done" /\ call.status = "ok"

\* The index of the first step of an up(): fromIndex + 1 with an active
\* version, fromIndex (= 0) without.
FirstOfUp(call) == IF call.entry = Undefined THEN call.fromIndex ELSE call.fromIndex + 1

UpRuns(call, first) ==
    /\ call.entry = Undefined => first = 0
    /\ UpsOf(call) = Ascending(first, CountBetween(first, call.toIndex))
    /\ call.value = CountBetween(first, call.toIndex)

UpLatestCounts(call) ==
    call.target = Latest =>
        /\ call.entry = Undefined => call.value = Len(versions)
        /\ IndexAtEntry(call) = 0 => call.value = Len(versions) - 1

\* C2 as stated: a successful up(target) runs the up actions of indices
\* fromIndex+1..toIndex (0..toIndex when none was active) in ascending order,
\* once each, returns their number, and leaves the version at toIndex
\* active; up("latest") returns N from nothing and N-1 from the lowest.
UpExecutesPlan ==
    \A c \in Callers :
        SuccessfulUp(calls[c]) =>
            /\ UpRuns(calls[c], FirstOfUp(calls[c]))
            /\ UpLatestCounts(calls[c])
            /\ ActiveIndex = calls[c].toIndex

\* C2, amended: the same, but the version at toIndex is active afterwards
\* only when toIndex >= fromIndex; an up() to a target below the active
\* version is a no-op that leaves the version at fromIndex active.
UpExecutesPlanOrStays ==
    \A c \in Callers :
        SuccessfulUp(calls[c]) =>
            /\ UpRuns(calls[c], FirstOfUp(calls[c]))
            /\ UpLatestCounts(calls[c])
            /\ ActiveIndex = IF calls[c].toIndex >= calls[c].fromIndex
                             THEN calls[c].toIndex ELSE calls[c].fromIndex

\* An up() from an active version that ran at least two steps.
UpExecutesPlanReached ==
    /\ SuccessfulUp(calls[1])
    /\ calls[1].entry # Undefined
    /\ calls[1].value >= 2

SuccessfulDown(call) ==
    /\ call.op = "down" /\ call.pc = "done" /\ call.status = "ok"
    /\ call.fromIndex > call.toIndex

\* C3: a successful down(target) with fromIndex > toIndex runs the down
\* actions of indices fromIndex, ..., toIndex+1 in descending order, once
\* each, persists the version at i-1 after the down of i, returns
\* fromIndex - toIndex and leaves the version at toIndex active.
DownExecutesPlan ==
    \A c \in Callers :
        SuccessfulDown(calls[c]) =>
            /\ calls[c].fromIndex = IndexAtEntry(calls[c])
            /\ calls[c].trace = DescendingSteps(calls[c].fromIndex,
                                    calls[c].fromIndex - calls[c].toIndex)
            /\ calls[c].value = calls[c].fromIndex - calls[c].toIndex
            /\ ActiveIndex = calls[c].toIndex

\* A down() that ran at least two steps.
DownExecutesPlanReached ==
    /\ SuccessfulDown(calls[1])
    /\ calls[1].value >= 2

\* The index a step's persist writes: that of the step for up, one lower
\* for down.
Produced(event) == IF event.kind = "up" THEN event.index ELSE event.index - 1

Sequential(call, t) ==
    /\ \A k \in 1..Len(t) :
        /\ (k % 2 = 1) = (t[k].kind # "set")
        /\ k < Len(t) => t[k].ok
        /\ k % 2 = 0 => t[k].index = Produced(t[k - 1])
    /\ call.pc \in {"up_log", "up_act", "down_log", "down_act", "un_final"}
           => Len(t) % 2 = 0
    /\ call.pc \in {"up_set", "down_set", "un_clear"} => Len(t) % 2 = 1
    /\ (Len(t) > 0 /\ t[Len(t)].kind = "set" /\ t[Len(t)].ok)
           => ActiveIndex = t[Len(t)].index

\* C4: within a call actions and persists alternate, each one starting only
\* after the one before it completed; a persist writes the version its step
\* produced, and after every completed step that version is the active one.
StepsAreSequential ==
    \A c \in Callers : Sequential(calls[c], calls[c].trace)

\* An up() between two steps: one step persisted, the next action due.
StepsAreSequentialReached ==
    /\ calls[1].pc = "up_act"
    /\ Len(calls[1].trace) >= 2
    /\ ActiveIndex = calls[1].i - 1

UpFailure(call, t, k) ==
    (t[k].kind = "up" /\ ~t[k].ok) =>
        /\ k = Len(t)
        /\ call.pc = "done"
        /\ call.status = "UpgradeFailed"
        /\ IF k = 1 THEN Marker = call.entry ELSE ActiveIndex = t[k].index - 1

\* C5: when the up action of index i fails, up() fails with UpgradeFailed,
\* makes no further action or write, and the active version is that of
\* index i-1 if a step of this call completed, unchanged otherwise.
UpFailureStops ==
    \A c \in Callers :
        \A k \in 1..Len(calls[c].trace) : UpFailure(calls[c], calls[c].trace, k)

\* An up() whose second step's action failed.
UpFailureStopsReached ==
    /\ calls[1].status = "UpgradeFailed"
    /\ Len(calls[1].trace) = 3
    /\ ~calls[1].trace[3].ok

DownFailure(call, t, k) ==
    (call.op = "down" /\ t[k].kind = "down" /\ ~t[k].ok) =>
        /\ k = Len(t)
        /\ call.pc = "done"
        /\ call.status = "DowngradeFailed"
        /\ ActiveIndex = t[k].index

\* C6: when the down action of index i fails, down() fails with
\* DowngradeFailed, makes no further action or write, and the version at
\* index i stays active.
DownFailureStops ==
    \A c \in Callers :
        \A k \in 1..Len(calls[c].trace) : DownFailure(calls[c], calls[c].trace, k)

\* A down() whose second step's action failed.
DownFailureStopsReached ==
    /\ calls[1].op = "down"
    /\ calls[1].status = "DowngradeFailed"
    /\ Len(calls[1].trace) = 3
    /\ ~calls[1].trace[3].ok

SetterFailure(call, t, k) ==
    (call.op \in {"up", "down"} /\ t[k].kind = "set" /\ ~t[k].ok) =>
        /\ k = Len(t)
        /\ call.pc = "done"
        /\ call.status = "PersistenceFailed"
        /\ store = IF k = 2 THEN call.entry ELSE At(versions, t[k - 2].index).version
        /\ call.successCounter = (k - 2) \div 2

\* C7: when the setter fails after a step's action, up() or down() fails
\* with PersistenceFailed, runs no further action, the store holds what it
\* held before the step, and the step is not counted.
SetterFailureStops ==
    \A c \in Callers :
        \A k \in 1..Len(calls[c].trace) : SetterFailure(calls[c], calls[c].trace, k)

\* A call whose second step's persist failed.
SetterFailureStopsReached ==
    /\ calls[1].op \in {"up", "down"}
    /\ calls[1].status = "PersistenceFailed"
    /\ Len(calls[1].trace) = 4
    /\ ~calls[1].trace[4].ok

\* An up() or down() that ended, the getter never failing, with an explicit
\* label no registered version has.
UnregisteredTarget(call) ==
    /\ call.op \in {"up", "down"} /\ call.pc = "done"
    /\ call.status # "GetterFailed"
    /\ call.target \notin Sentinels
    /\ indexOf(versions, call.target) = -1

\* C8 as stated: up(label) and down(label) with an unregistered label fail
\* with TargetNotFound, run no action, write nothing and leave the active
\* version unchanged.
UnregisteredTargetFails ==
    \A c \in Callers :
        UnregisteredTarget(calls[c]) =>
            /\ calls[c].status = "TargetNotFound"
            /\ calls[c].trace = <<>>
            /\ Marker = calls[c].entry

\* C8, amended: the same, but down(label) with no active version fails with
\* NoActiveVersion before the label is looked up.
UnregisteredTargetFailsWhenActive ==
    \A c \in Callers :
        UnregisteredTarget(calls[c]) =>
            /\ calls[c].status =
                   IF calls[c].op = "down" /\ calls[c].entry = Undefined
                   THEN "NoActiveVersion" ELSE "TargetNotFound"
            /\ calls[c].trace = <<>>
            /\ Marker = calls[c].entry

\* A down(label) with an active version and an unregistered label.
UnregisteredTargetFailsReached ==
    /\ UnregisteredTarget(calls[1])
    /\ calls[1].op = "down"
    /\ calls[1].entry # Undefined
    /\ calls[1].status = "TargetNotFound"

SuccessfulUninstall(call) ==
    /\ call.op = "uninstall" /\ call.pc = "done" /\ call.status = "ok"
    /\ call.entry # Undefined

UninstallRuns(call, k) ==
    /\ DownsOf(call) = Descending(k, k + 1)
    /\ call.value = k + 1
    /\ Marker = Undefined
    /\ getActiveVersion = Undefined

\* C9: uninstall() with the active version at index k runs the down actions
\* of indices k, ..., 0 in that order, once each, returns k+1 and leaves no
\* version active.
UninstallExecutesAll ==
    \A c \in Callers :
        SuccessfulUninstall(calls[c]) =>
            UninstallRuns(calls[c], IndexAtEntry(calls[c]))

\* An uninstall() from index 2 or above.
UninstallExecutesAllReached ==
    /\ SuccessfulUninstall(calls[1])
    /\ calls[1].value >= 3

UninstallWithoutActive(call) == call.op = "uninstall" /\ call.entry = Undefined

\* C10: uninstall() with no active version returns 0, runs no down action
\* and writes nothing.
UninstallIsNoopWithoutActive ==
    \A c \in Callers :
        UninstallWithoutActive(calls[c]) =>
            /\ calls[c].trace = <<>>
            /\ Marker = Undefined
            /\ (calls[c].pc = "done" /\ calls[c].status # "GetterFailed")
                   => (calls[c].status = "ok" /\ calls[c].value = 0)

\* An uninstall() that returned with nothing active, a store being
\* configured and versions registered.
UninstallIsNoopWithoutActiveReached ==
    /\ UninstallWithoutActive(calls[1])
    /\ calls[1].pc = "done" /\ calls[1].status = "ok"
    /\ hasSetter
    /\ Len(versions) > 0

DownWithoutActive(call) == call.op = "down" /\ call.entry = Undefined

\* C11: down(target) with no active version, whatever the target, fails
\* with NoActiveVersion, runs no action and writes nothing.
DownNeedsActive ==
    \A c \in Callers :
        DownWithoutActive(calls[c]) =>
            /\ calls[c].trace = <<>>
            /\ Marker = Undefined
            /\ (calls[c].pc = "done" /\ calls[c].status # "GetterFailed")
                   => calls[c].status = "NoActiveVersion"

\* A down("initial") on a collection with versions, none of them active.
DownNeedsActiveReached ==
    /\ DownWithoutActive(calls[1])
    /\ calls[1].target = Initial
    /\ calls[1].status = "NoActiveVersion"
    /\ Len(versions) > 0

\* An up() from an active version whose plan resolved the target at or
\* below it.
UpNotAbove(call) ==
    /\ call.op = "up" /\ call.entry # Undefined
    /\ call.toIndex # -1 /\ call.fromIndex >= call.toIndex

\* An up("latest") or up(label) called again right after it succeeded.
UpAgain(call) ==
    /\ call.op = "up" /\ call.repeat /\ call.pc = "done"
    /\ call.status # "GetterFailed"
    /\ call.target \notin {Major, Minor, Patch}

\* C12: up(target) from an active version with fromIndex >= toIndex returns
\* 0, runs no action, writes nothing and leaves the active version
\* unchanged; so does up("latest") or up(label) repeated right after it
\* succeeded.
UpIsNoopAtOrBelow ==
    \A c \in Callers :
        (UpNotAbove(calls[c]) \/ UpAgain(calls[c])) =>
            /\ calls[c].pc = "done"
            /\ calls[c].status = "ok"
            /\ calls[c].value = 0
            /\ calls[c].trace = <<>>
            /\ Marker = calls[c].entry

\* An up("latest") that ran steps, repeated: the second call returned.
UpIsNoopAtOrBelowReached ==
    /\ UpAgain(calls[1])
    /\ UpNotAbove(calls[1])
    /\ calls[1].target = Latest
    /\ ActiveIndex >= 1

\* A down() whose plan resolved the target at or above the active version.
DownNotBelow(call) ==
    /\ call.op = "down"
    /\ call.fromIndex # -1 /\ call.toIndex # -1
    /\ call.fromIndex <= call.toIndex

\* C13: down(target) with fromIndex <= toIndex returns 0 without error,
\* runs no down action and leaves the active version unchanged.
DownIsNoopAtOrAbove ==
    \A c \in Callers :
        DownNotBelow(calls[c]) =>
            /\ calls[c].pc = "done"
            /\ calls[c].status = "ok"
            /\ calls[c].value = 0
            /\ calls[c].trace = <<>>
            /\ Marker = calls[c].entry

\* A down(label) to a registered label above the active version.
DownIsNoopAtOrAboveReached ==
    /\ DownNotBelow(calls[1])
    /\ calls[1].target \notin Sentinels
    /\ calls[1].fromIndex < calls[1].toIndex
    /\ calls[1].pc = "done"

\* A planner call that returned a plan for the given target.
Planned(call, op, target) ==
    /\ call.op = op /\ call.pc = "done" /\ call.status = "ok"
    /\ call.target = target
    /\ call.value.plan

MinOf(numbers) == CHOOSE n \in numbers : \A other \in numbers : n <= other

MaxOf(numbers) == CHOOSE n \in numbers : \A other \in numbers : other <= n

\* The 1-based position of the highest-sorted version among `qualifying`,
\* that of 'from' when there is none.
HighestOr(qualifying, from) == IF qualifying = {} THEN from ELSE MaxOf(qualifying)

\* The plan's 'to' is the version at 1-based position `expected`.
ResolvesTo(m, expected) ==
    /\ m.toIndex = expected - 1
    /\ m.toVersion = versions[expected].version

MajorsAbove(from) ==
    {versions[i].major : i \in {j \in 1..Len(versions) : versions[j].major > from.major}}

NextMajorGroup(above, from) ==
    IF above = {} THEN {}
    ELSE {i \in 1..Len(versions) : versions[i].major = MinOf(above)}

UpMajorResolves(call, m, from) ==
    /\ ResolvesTo(m, HighestOr(NextMajorGroup(MajorsAbove(versions[from]), from), from))
    /\ (call.activeVersion = Undefined /\ Marker = Undefined) => from = 1

\* C14: __upMeta("major") resolves 'to' as the highest-sorted version of the
\* smallest registered major greater than from's, as 'from' itself when
\* there is no greater major; with no from-label and no active version
\* 'from' is the lowest-sorted version.
UpMajorIsNextGroup ==
    \A c \in Callers :
        Planned(calls[c], "upMeta", Major) =>
            UpMajorResolves(calls[c], calls[c].value, calls[c].value.fromIndex + 1)

\* A plan over a gap of majors to the newest of two members of a group
\* that is not the latest one.
UpMajorIsNextGroupReached ==
    /\ Planned(calls[1], "upMeta", Major)
    /\ versions[calls[1].toIndex + 1].major > versions[calls[1].fromIndex + 1].major + 1
    /\ versions[calls[1].toIndex].major = versions[calls[1].toIndex + 1].major
    /\ calls[1].toIndex + 1 < Len(versions)

GreaterMinors(from) ==
    {i \in 1..Len(versions) :
        versions[i].major = from.major /\ versions[i].minor > from.minor}

GreaterPatches(from) ==
    {i \in 1..Len(versions) :
        /\ versions[i].major = from.major
        /\ versions[i].minor = from.minor
        /\ versions[i].patch > from.patch}

\* C15: __upMeta("minor") resolves 'to' as the highest-sorted version of
\* from's major with a greater minor, __upMeta("patch") as the highest-sorted
\* one of from's major and minor with a greater patch, and as 'from' itself
\* when there is none.
UpMinorPatchIsHighest ==
    \A c \in Callers :
        /\ Planned(calls[c], "upMeta", Minor) =>
               ResolvesTo(calls[c].value,
                   HighestOr(GreaterMinors(versions[calls[c].value.fromIndex + 1]),
                             calls[c].value.fromIndex + 1))
        /\ Planned(calls[c], "upMeta", Patch) =>
               ResolvesTo(calls[c].value,
                   HighestOr(GreaterPatches(versions[calls[c].value.fromIndex + 1]),
                             calls[c].value.fromIndex + 1))

\* A "minor" plan that passes over a nearer qualifying version.
UpMinorPatchIsHighestReached ==
    /\ Planned(calls[1], "upMeta", Minor)
    /\ calls[1].toIndex > calls[1].fromIndex + 1
    /\ versions[calls[1].toIndex].minor > versions[calls[1].fromIndex + 1].minor

SmallerMajors(from) ==
    {i \in 1..Len(versions) : versions[i].major < from.major}

SmallerMinors(from) ==
    {i \in 1..Len(versions) :
        versions[i].major = from.major /\ versions[i].minor < from.minor}

SmallerPatches(from) ==
    {i \in 1..Len(versions) :
        /\ versions[i].major = from.major
        /\ versions[i].minor = from.minor
        /\ versions[i].patch < from.patch}

\* C16: __downMeta("major"), ("minor") and ("patch") resolve 'to' as the
\* highest-sorted version with a smaller major, with from's major and a
\* smaller minor, with from's major and minor and a smaller patch, and as
\* 'from' itself when there is none; "initial" resolves to the lowest-sorted
\* version.
DownIsNearestLower ==
    \A c \in Callers :
        /\ Planned(calls[c], "downMeta", Major) =>
               ResolvesTo(calls[c].value,
                   HighestOr(SmallerMajors(versions[calls[c].value.fromIndex + 1]),
                             calls[c].value.fromIndex + 1))
        /\ Planned(calls[c], "downMeta", Minor) =>
               ResolvesTo(calls[c].value,
                   HighestOr(SmallerMinors(versions[calls[c].value.fromIndex + 1]),
                             calls[c].value.fromIndex + 1))
        /\ Planned(calls[c], "downMeta", Patch) =>
               ResolvesTo(calls[c].value,
                   HighestOr(SmallerPatches(versions[calls[c].value.fromIndex + 1]),
                             calls[c].value.fromIndex + 1))
        /\ Planned(calls[c], "downMeta", Initial) => ResolvesTo(calls[c].value, 1)

\* A "major" plan over a gap of majors to a version that is not the lowest.
DownIsNearestLowerReached ==
    /\ Planned(calls[1], "downMeta", Major)
    /\ versions[calls[1].toIndex + 1].major < versions[calls[1].fromIndex + 1].major - 1
    /\ calls[1].toIndex >= 1

AvailableSet(items) == {items[i].version : i \in 1..Len(items)}

\* The versions are listed in strictly ascending order of compareSemver.
StrictlyAscending(items) ==
    \A i \in 1..Len(items) : \A j \in (i + 1)..Len(items) :
        compareSemver(items[i].version, items[j].version) < 0

\* A successful addVersion added the normalized label, once, to what was
\* registered.
AddedOnce(call, items) ==
    (call.op = "addVersion" /\ call.status = "ok") =>
        /\ AvailableSet(items) =
               AvailableSet(call.before.versions) \cup {normalizeSemver(call.target)}
        /\ Len(items) = Len(call.before.versions) + 1

\* C17: after any sequence of addVersion calls `available` lists every
\* registered normalized version once, in strictly ascending order of
\* compareSemver, and is the list any other order of registration gives.
AvailableIsSorted ==
    /\ StrictlyAscending(versions)
    /\ Cardinality(AvailableSet(versions)) = Len(versions)
    /\ versions = RegisterAll(AvailableSet(versions))
    /\ \A c \in Callers : AddedOnce(calls[c], versions)

\* "v3.5.0-foo" registered fourth, after "3.5", and listed before it.
AvailableIsSortedReached ==
    /\ calls[1].op = "addVersion" /\ calls[1].status = "ok"
    /\ calls[1].target = <<"v", "3", ".", "5", ".", "0", "-", "f", "o", "o">>
    /\ Len(versions) = 4
    /\ Len(calls[1].before.versions) = 3
    /\ versions[3].version = normalizeSemver(calls[1].target)
    /\ versions[4].version = <<"3", ".", "5", ".", "0">>

\* An addVersion of a well-formed label whose normalized form was registered.
AddsDuplicate(call) ==
    /\ call.op = "addVersion"
    /\ ~IsError(normalizeSemver(call.target))
    /\ FindIndex(call.before.versions, normalizeSemver(call.target)) # -1

\* C18: addVersion of a label whose normalized form is registered already
\* fails with DuplicateVersion and leaves members, order and active marker
\* as they were.
DuplicateIsRejected ==
    \A c \in Callers :
        AddsDuplicate(calls[c]) =>
            /\ calls[c].status = "DuplicateVersion"
            /\ versions = calls[c].before.versions
            /\ active = calls[c].before.active
            /\ store = calls[c].before.store

\* addVersion("v1") with "1.0.0" registered and a version active.
DuplicateIsRejectedReached ==
    /\ AddsDuplicate(calls[1])
    /\ calls[1].target = <<"v", "1">>
    /\ calls[1].status = "DuplicateVersion"
    /\ active # Undefined
    /\ Len(versions) >= 2

\* A setActiveVersion with a well-formed explicit label that is not
\* registered, or with "latest" or "initial" on an empty collection.
MarksMissing(call) ==
    /\ call.op = "setActiveVersion"
    /\ IF call.target \in {Latest, Initial} THEN Len(call.before.versions) = 0
       ELSE /\ call.target # Undefined
            /\ ~IsError(normalizeSemver(call.target))
            /\ FindIndex(call.before.versions, normalizeSemver(call.target)) = -1

\* C19: setActiveVersion with an unregistered explicit label, or with
\* "latest" or "initial" on an empty collection, fails with VersionNotFound,
\* leaves the in-memory marker as it was and does not call the setter.
MissingIsNotMarked ==
    \A c \in Callers :
        MarksMissing(calls[c]) =>
            /\ calls[c].pc = "done"
            /\ calls[c].status = "VersionNotFound"
            /\ calls[c].trace = <<>>
            /\ active = calls[c].before.active
            /\ store = calls[c].before.store

\* setActiveVersion of an unregistered label with a version active and a
\* setter configured.
MissingIsNotMarkedReached ==
    /\ MarksMissing(calls[1])
    /\ calls[1].target = Unregistered
    /\ calls[1].status = "VersionNotFound"
    /\ active # Undefined
    /\ hasSetter

\* What a successful setActiveVersion(target) makes active.
MarkedFor(target, items) ==
    IF target = Undefined THEN Undefined
    ELSE IF target = Latest THEN items[Len(items)].version
    ELSE IF target = Initial THEN items[1].version
    ELSE normalizeSemver(target)

\* The calls a setActiveVersion makes: the marker, then the setter if
\* configured, with the same label.
MarkedThenSet(label) ==
    <<Event("mark", FindIndex(versions, label), TRUE)>>
        \o (IF hasSetter THEN <<Event("set", FindIndex(versions, label), TRUE)>>
            ELSE <<>>)

MarksAs(call, label) ==
    /\ call.pc = "mark_set" =>
           /\ active = label
           /\ label = Undefined \/ FindIndex(versions, label) # -1
           /\ store = call.before.store
           /\ call.trace = <<Event("mark", FindIndex(versions, label), TRUE)>>
    /\ (call.pc = "done" /\ call.status = "ok") =>
           /\ active = label
           /\ label = Undefined \/ FindIndex(versions, label) # -1
           /\ call.trace = MarkedThenSet(label)
           /\ hasSetter => store = label
           /\ call.value = label

\* C20: a successful setActiveVersion(target) makes the highest-sorted
\* version active for "latest", the lowest-sorted for "initial", the member
\* of that label for a label and none for undefined; it sets the in-memory
\* marker first, then hands the same label to the setter if one is
\* configured, and returns it.
MarkIsSetThenSaved ==
    \A c \in Callers :
        (calls[c].op = "setActiveVersion" /\ calls[c].status \in {"pending", "ok"}) =>
            MarksAs(calls[c], MarkedFor(calls[c].target, versions))

\* setActiveVersion("latest") that moved the marker and wrote the store.
MarkIsSetThenSavedReached ==
    /\ calls[1].op = "setActiveVersion"
    /\ calls[1].pc = "done" /\ calls[1].status = "ok"
    /\ calls[1].target = Latest
    /\ hasSetter
    /\ Len(versions) >= 2
    /\ calls[1].before.active # active

\* An up() on an engine without versions that ended, the getter not failing.
UpOnEmpty(call) ==
    /\ call.op = "up" /\ call.pc = "done"
    /\ call.status # "GetterFailed"
    /\ Len(versions) = 0

\* C29: on an empty collection up(target) gets no plan and fails with
\* TargetNotFound, whatever the target, instead of returning 0; it runs no
\* action and writes nothing.
EmptyHasNoPlan ==
    \A c \in Callers :
        UpOnEmpty(calls[c]) =>
            /\ calls[c].status = "TargetNotFound"
            /\ calls[c].fromIndex = -1 /\ calls[c].toIndex = -1
            /\ calls[c].trace = <<>>
            /\ Marker = calls[c].entry

\* up("latest") on an engine without versions, a store being configured.
EmptyHasNoPlanReached ==
    /\ UpOnEmpty(calls[1])
    /\ calls[1].target = Latest
    /\ calls[1].status = "TargetNotFound"
    /\ hasSetter

FinalDownFailure(call, t, k) ==
    (call.op = "uninstall" /\ t[k] = Event("down", 0, FALSE)) =>
        /\ k = Len(t)
        /\ call.pc = "done"
        /\ call.status = "UninstallFailed"
        /\ Marker = versions[1].version
        /\ \A j \in 1..(k - 1) : t[j].ok

\* C30: when the final down action of the lowest version fails in
\* uninstall(), the call fails with UninstallFailed, the marker is not
\* cleared and the lowest-sorted version stays active, every step above it
\* having been taken and persisted.
FinalDownFailureKeepsLowest ==
    \A c \in Callers :
        \A k \in 1..Len(calls[c].trace) :
            FinalDownFailure(calls[c], calls[c].trace, k)

\* An uninstall() from index 2 or above whose final step failed.
FinalDownFailureKeepsLowestReached ==
    /\ calls[1].op = "uninstall"
    /\ calls[1].status = "UninstallFailed"
    /\ Len(calls[1].trace) >= 5
    /\ ActiveIndex = 0
\* The loop of down() calls is over: a call returned 0 or threw.
DownLoopEnded ==
    \A c \in Callers :
        calls[c].pc = "done" /\ (calls[c].status # "ok" \/ calls[c].value = 0)

\* A call of the loop that returned non-zero left the active version at a
\* strictly lower index than the one it found.
DownLoopLowers(call) ==
    (call.pc = "done" /\ call.status = "ok" /\ call.value # 0) =>
        ActiveIndex >= 0 /\ ActiveIndex < IndexAtEntry(call)

\* The active version is in the lowest registered major group.
InLowestMajor(items, index) ==
    index >= 0 /\ \A k \in 1..Len(items) : items[k].major >= items[index + 1].major

\* The active version is the highest-sorted version of its major group.
HighestOfMajor(items, index) ==
    index >= 0 /\ \A k \in 1..Len(items) :
        items[k].major = items[index + 1].major => k <= index + 1

DownLoopReturnedZero(call) ==
    call.op = "down" /\ call.pc = "done" /\ call.status = "ok" /\ call.value = 0

\* The claim's final state as written: the loop ends at the highest-sorted
\* version of the lowest registered major group.
DownLoopEndsAtHighest(call) ==
    DownLoopReturnedZero(call) =>
        InLowestMajor(versions, ActiveIndex) /\ HighestOfMajor(versions, ActiveIndex)

\* The final state the code reaches: the lowest major group; its highest
\* version when an earlier call of the loop stepped down, and the version
\* the loop started from when the first call returned 0.
DownLoopEndsInLowest(call) ==
    DownLoopReturnedZero(call) =>
        /\ InLowestMajor(versions, ActiveIndex)
        /\ call.repeat => HighestOfMajor(versions, ActiveIndex)
        /\ ~call.repeat => Marker = call.entry

\* C27 (as amended): calling down() with its default target "major" until
\* it returns 0 terminates; every call that returns non-zero strictly lowers
\* the index of the active version; and the loop ends with the active
\* version in the lowest registered major group: the highest-sorted version
\* of that group when some call stepped down, the starting version when the
\* first call already returned 0.
DownLoopTerminates ==
    /\ [](\A c \in Callers :
             DownLoopLowers(calls[c]) /\ DownLoopEndsInLowest(calls[c]))
    /\ <>DownLoopEnded

\* C27: with two major groups of two versions each, a loop that started in
\* the higher group, stepped down and whose second call returned 0 ended at
\* index 1, the highest-sorted version of the lowest group.
DownLoopTerminatesReached ==
    /\ DownLoopReturnedZero(calls[1]) /\ calls[1].repeat /\ clean
    /\ Len(versions) = 4 /\ ActiveIndex = 1
    /\ versions[1].major = versions[2].major
    /\ versions[3].major = versions[4].major
    /\ versions[2].major < versions[3].major

\* C27 as written: whenever the loop ends with a call that returned 0, the
\* active version is the highest-sorted version of the lowest registered
\* major group.
DownLoopEndsAtHighestOfLowest ==
    \A c \in Callers : DownLoopEndsAtHighest(calls[c])
\* The getter's value at the entry of the call stands for "no active
\* version": undefined, null or "".
NoActiveAtEntry(call) == ~Truthy(call.entry)

\* isInitial is reported exactly when nothing was active, and a successful
\* up() from nothing active starts with the up action of the lowest version.
StartsAtLowest(call) ==
    (call.op = "up" /\ call.fromIndex # -1) =>
        /\ call.isInitial <=> NoActiveAtEntry(call)
        /\ (NoActiveAtEntry(call) /\ call.pc = "done" /\ call.status = "ok") =>
               (call.trace # <<>> /\ call.trace[1] = Event("up", 0, TRUE))

\* C28: the plan of up() has isInitial = TRUE exactly when "from" fell back
\* to the lowest version because no version is active, and an up() that
\* succeeds when nothing is active runs the up action of the lowest version
\* first, whichever no-active value (undefined, null, "") the external getter
\* returned.
UpNeverSkipsLowest == \A c \in Callers : StartsAtLowest(calls[c])

\* C28: the store held "", up("latest") succeeded on two or more versions
\* and its first step was the up action of index 1: the lowest version was
\* skipped.
UpSkipsLowestReached ==
    /\ calls[1].op = "up" /\ calls[1].target = Latest
    /\ calls[1].entry = <<>>
    /\ calls[1].pc = "done" /\ calls[1].status = "ok"
    /\ ~calls[1].isInitial
    /\ calls[1].trace # <<>> /\ calls[1].trace[1] = Event("up", 1, TRUE)
\* The index of the first action a call ran, -1 if it ran none.
FirstActed(t) == IF t = <<>> THEN -1 ELSE t[1].index

\* A call planned and, if it ran a step, executed from the version the
\* store held at its entry: up() starts right above it, down() and
\* uninstall() start at it.
PlannedFromStore(call) ==
    (Truthy(call.entry) /\ call.fromIndex # -1) =>
        /\ call.fromIndex = IndexAtEntry(call)
        /\ call.trace # <<>> =>
               FirstActed(call.trace) =
                   IF call.op = "up" THEN IndexAtEntry(call) + 1
                   ELSE IndexAtEntry(call)

\* C22: with an external getter, every up(), down() and uninstall() plans
\* from the version the getter returned at the entry of the call, whatever
\* the in-memory marker holds: after the store was set out-of-band to a
\* registered version X, the next call plans from X and its first step is
\* the one next to X.
FromIsReadFromStore == \A c \in Callers : PlannedFromStore(calls[c])

\* C22: an earlier call left the in-memory marker at one version, the store
\* was then set to a lower one, and the next up() ran its first step right
\* above the version of the store.
FromIsReadFromStoreReached ==
    /\ calls[1].op = "up" /\ calls[1].pc = "up_set" /\ Len(calls[1].trace) = 1
    /\ Truthy(calls[1].entry) /\ Truthy(active)
    /\ FindIndex(versions, active) > IndexAtEntry(calls[1]) + 1
    /\ calls[1].trace[1] = Event("up", IndexAtEntry(calls[1]) + 1, TRUE)
\* C21: whatever addVersion, setActiveVersion, up, down and uninstall calls
\* were made, and however they ended, the in-memory active marker is unset
\* or is the version of a member of the collection.
MarkerIsMember == active = Undefined \/ FindIndex(versions, active) # -1

\* C21: three versions are registered, a getter, setter or action failed in
\* an earlier call, the marker is on the second version, and the last call,
\* a setActiveVersion of a version that is no member, was rejected.
MarkerIsMemberReached ==
    /\ Len(versions) = 3 /\ FindIndex(versions, active) = 1
    /\ ~clean
    /\ calls[1].op = "setActiveVersion" /\ calls[1].status = "VersionNotFound"
\* A call of compareSemver on the pairs of a, b and c that returned.
ComparedOk(call) ==
    call.op = "compareSemver" /\ call.pc = "done" /\ call.status = "ok"

Sign(n) == IF n < 0 THEN -1 ELSE IF n > 0 THEN 1 ELSE 0

ConsistentOrder(call) ==
    ComparedOk(call) =>
        /\ call.value.aa = 0
        /\ Sign(call.value.ab) = -Sign(call.value.ba)
        /\ (call.value.ab < 0 /\ call.value.bc < 0) => call.value.ac < 0

\* C23: compareSemver is a consistent ordering: compare(a, a) = 0, the sign
\* of compare(a, b) is the opposite of the sign of compare(b, a), and
\* compare(a, b) < 0 and compare(b, c) < 0 imply compare(a, c) < 0.
CompareIsConsistent == \A c \in Callers : ConsistentOrder(calls[c])

\* C23: 1.0.0-a is below 1.0.0 by its prerelease, 1.0.0 is below 1.0.0+a by
\* the tie-break, and 1.0.0-a is below 1.0.0+a.
CompareIsConsistentReached ==
    /\ ComparedOk(calls[1])
    /\ calls[1].a = <<"1", ".", "0", ".", "0", "-", "a">>
    /\ calls[1].b = <<"1", ".", "0", ".", "0">>
    /\ calls[1].c = <<"1", ".", "0", ".", "0", "+", "a">>
    /\ calls[1].value.ab < 0 /\ calls[1].value.bc < 0 /\ calls[1].value.ac < 0

\* Two parsed versions have the same major, minor, patch and prerelease.
SamePrecedence(vA, vB) ==
    /\ vA.major = vB.major /\ vA.minor = vB.minor /\ vA.patch = vB.patch
    /\ vA.prerelease = vB.prerelease

\* The string is in normalized form already.
IsNormalized(version) == normalizeSemver(version) = version

\* Two normalized strings that differ in their build metadata at most
\* compare as equal.
BuildIgnored(call, vA, vB) ==
    (ComparedOk(call) /\ IsNormalized(call.a) /\ IsNormalized(call.b)
        /\ SamePrecedence(vA, vB)) => call.value.ab = 0

\* The build metadata decides only between versions that are the same in
\* everything else, through the comparison of the two strings as given.
BuildBreaksTies(call, vA, vB, vC) ==
    ComparedOk(call) =>
        /\ SamePrecedence(vA, vB) => call.value.ab = localeCompare(call.a, call.b)
        /\ (SamePrecedence(vB, vC) /\ ~SamePrecedence(vA, vB)) =>
               Sign(call.value.ab) = Sign(call.value.ac)

\* C24 (as amended): the build metadata of a version does not affect how it
\* compares with a version that differs from it in major, minor, patch or
\* prerelease; two versions identical in these compare as their original
\* strings do under localeCompare, build metadata included.
BuildOnlyBreaksTies ==
    \A c \in Callers :
        ComparedOk(calls[c]) =>
            BuildBreaksTies(calls[c], parseSemver(calls[c].a),
                            parseSemver(calls[c].b), parseSemver(calls[c].c))

\* C24: 1.0.0+a compared below 1.0.0+b and above 1.0.0-a.
BuildOnlyBreaksTiesReached ==
    /\ ComparedOk(calls[1])
    /\ calls[1].a = <<"1", ".", "0", ".", "0", "+", "a">>
    /\ calls[1].b = <<"1", ".", "0", ".", "0", "+", "b">>
    /\ calls[1].c = <<"1", ".", "0", ".", "0", "-", "a">>
    /\ calls[1].value.ab < 0 /\ calls[1].value.ac > 0

\* C24 as written: for two versions identical in major, minor, patch and
\* prerelease the result of compareSemver does not depend on their build
\* metadata.
BuildNeverOrders ==
    \A c \in Callers :
        ComparedOk(calls[c]) =>
            BuildIgnored(calls[c], parseSemver(calls[c].a), parseSemver(calls[c].b))

\* A call that normalized a string normalizeSemver accepts, parsed the
\* result and normalized it again.
NormalizedOk(call) ==
    call.op = "normalizeSemver" /\ call.pc = "done" /\ call.status = "ok"

\* C25: for every string normalizeSemver accepts with assert = true,
\* normalizing the result again gives the same string, and parseSemver
\* accepts the result.
NormalizeIsCanonical ==
    \A c \in Callers :
        NormalizedOk(calls[c]) =>
            /\ calls[c].again = calls[c].normalized
            /\ ~IsError(calls[c].parsed)

\* C25: "1-a+" was normalized to "1.0.0-a+", which parseSemver rejected.
NormalizeIsNotCanonicalReached ==
    /\ NormalizedOk(calls[1])
    /\ calls[1].version = <<"1", "-", "a", "+">>
    /\ calls[1].normalized = <<"1", ".", "0", ".", "0", "-", "a", "+">>
    /\ calls[1].parsed \in {InvalidSemVer}

\* x comes before y in the order of the code units.
TextBefore(x, y) ==
    \E i \in 1..(Len(y)) :
        /\ \A j \in 1..(i - 1) : j <= Len(x) /\ x[j] = y[j]
        /\ \/ i = Len(x) + 1
           \/ i <= Len(x) /\ RankIn(CodeUnits, x[i]) < RankIn(CodeUnits, y[i])

\* Two prerelease identifiers of the same precedence.
SameIdentifier(x, y) == x = y \/ (IsNum(x) /\ IsNum(y) /\ ParseInt(x) = ParseInt(y))

\* x has a lower precedence than y: a numeric identifier is below a
\* non-numeric one, numeric ones compare as numbers, others as text.
IdentifierBefore(x, y) ==
    IF IsNum(x) /\ IsNum(y) THEN ParseInt(x) < ParseInt(y)
    ELSE IF IsNum(x) # IsNum(y) THEN IsNum(x)
    ELSE TextBefore(x, y)

\* The identifiers A are below the identifiers B: at the first position
\* where they differ, A has none left or has the lower one.
PrereleaseBefore(A, B) ==
    \E i \in 1..Len(B) :
        /\ \A j \in 1..(i - 1) : j <= Len(A) /\ SameIdentifier(A[j], B[j])
        /\ \/ i = Len(A) + 1
           \/ i <= Len(A) /\ IdentifierBefore(A[i], B[i])

PrecedenceOf(call, vA, vB) ==
    (vA.major = vB.major /\ vA.minor = vB.minor /\ vA.patch = vB.patch) =>
        /\ (vA.prerelease # <<>> /\ vB.prerelease = <<>>) => call.value.ab < 0
        /\ (vA.prerelease = <<>> /\ vB.prerelease # <<>>) => call.value.ab > 0
        /\ (vA.prerelease # <<>> /\ vB.prerelease # <<>>
               /\ PrereleaseBefore(Split(vA.prerelease, "."), Split(vB.prerelease, ".")))
              => (call.value.ab < 0 /\ call.value.ba > 0)

\* C26: between versions of the same major, minor and patch, one with a
\* prerelease is below one without; two prereleases are compared identifier
\* by identifier, a missing identifier being below a present one, numeric
\* identifiers comparing as numbers and below non-numeric ones, non-numeric
\* ones comparing as text; "3.5.0-foo" is below "3.5.0".
PrereleasePrecedence ==
    \A c \in Callers :
        ComparedOk(calls[c]) =>
            /\ PrecedenceOf(calls[c], parseSemver(calls[c].a), parseSemver(calls[c].b))
            /\ (calls[c].a = <<"3", ".", "5", ".", "0", "-", "f", "o", "o">> /\ calls[c].b = <<"3", ".", "5", ".", "0">>) => calls[c].value.ab < 0

\* C26: 1.0.0-2 compared below 1.0.0-10 (as numbers), and 1.0.0-10 below
\* 1.0.0-B (numeric below non-numeric).
PrereleasePrecedenceReached ==
    /\ ComparedOk(calls[1])
    /\ calls[1].a = <<"1", ".", "0", ".", "0", "-", "2">>
    /\ calls[1].b = <<"1", ".", "0", ".", "0", "-", "1", "0">>
    /\ calls[1].c = <<"1", ".", "0", ".", "0", "-", "B">>
    /\ calls[1].value.ab < 0 /\ calls[1].value.bc < 0

\* The trace of an uninstall() from index k whose last step, the clearing of
\* the marker, failed: every step of down("initial"), the final down action
\* of the lowest version, and the failed write of the unset marker.
ClearFailureTrace(k) ==
    DescendingSteps(k, k) \o <<Event("down", 0, TRUE), Event("set", -1, FALSE)>>

ClearFailed(call) ==
    /\ call.op = "uninstall"
    /\ Len(call.trace) > 0
    /\ call.trace[Len(call.trace)] = Event("set", -1, FALSE)

\* C31: when the clearing of the marker fails at the end of uninstall(), the
\* call fails with PersistenceFailed after every down action, the final one
\* of the lowest version included, has run, and the external store still
\* holds the lowest-sorted version.
ClearFailureKeepsLowest ==
    \A c \in Callers :
        ClearFailed(calls[c]) =>
            /\ calls[c].pc = "done"
            /\ calls[c].status = "PersistenceFailed"
            /\ calls[c].trace = ClearFailureTrace(IndexAtEntry(calls[c]))
            /\ hasSetter
            /\ store = At(versions, 0).version

\* An uninstall() from index 2 or above whose clearing failed.
ClearFailureKeepsLowestReached ==
    /\ ClearFailed(calls[1])
    /\ IndexAtEntry(calls[1]) >= 2
    /\ applied = {}

\* The 1-based positions of the versions that qualify as lower than `from`
\* for a down() with the given sentinel target.
QualifyingLower(target, from) ==
    IF target = Major THEN SmallerMajors(from)
    ELSE IF target = Minor THEN SmallerMinors(from)
    ELSE SmallerPatches(from)

\* A down("major"), down("minor") or down("patch") that returned.
ReturnedSentinelDown(call) ==
    /\ call.op = "down" /\ call.pc = "done" /\ call.status = "ok"
    /\ call.target \in {Major, Minor, Patch}

\* The call ran the down actions from its entry position (1-based) down to
\* just above position `to`, and left the version at `to` active.
DownRanTo(call, from, to) ==
    /\ DownsOf(call) = Descending(from - 1, from - to)
    /\ call.value = from - to
    /\ ActiveIndex = to - 1

\* C32, as stated: a down() with target "major", "minor" or "patch" executes
\* exactly one down action when a qualifying lower version exists, and none
\* otherwise.
DownRunsOneAction ==
    \A c \in Callers :
        ReturnedSentinelDown(calls[c]) =>
            Len(DownsOf(calls[c])) =
                IF QualifyingLower(calls[c].target,
                       versions[IndexAtEntry(calls[c]) + 1]) = {}
                THEN 0 ELSE 1

\* C32, amended: a down() with target "major", "minor" or "patch" goes to
\* the nearest qualifying lower version, the highest-sorted one: it executes
\* the down action of every version from the active one down to just above
\* it, which is one action only when that version is the one right below
\* the active one, and none when no version qualifies.
DownGoesToNearestLower ==
    \A c \in Callers :
        ReturnedSentinelDown(calls[c]) =>
            DownRanTo(calls[c], IndexAtEntry(calls[c]) + 1,
                HighestOr(QualifyingLower(calls[c].target,
                              versions[IndexAtEntry(calls[c]) + 1]),
                          IndexAtEntry(calls[c]) + 1))

\* A down("major") that passed over a version of the same major on its way
\* to the nearest lower major: two down actions in one call.
DownGoesToNearestLowerReached ==
    /\ ReturnedSentinelDown(calls[1])
    /\ calls[1].target = Major
    /\ Len(DownsOf(calls[1])) = 2
    /\ ActiveIndex = 1

\* Unset, or the normalized label of a version registered in the collection.
UnsetOrRegistered(items, value) ==
    \/ value = Undefined
    \/ /\ FindIndex(items, value) # -1
       /\ normalizeSemver(value) \in {value}

\* The step of call c in which setActiveVersion hands the marker it has just
\* synced to the external setter.
SetterStep(c) ==
    /\ hasSetter
    /\ calls[c].pc \in {"mark_set", "up_set", "down_set", "un_clear"}
    /\ calls'[c].pc # calls[c].pc

\* C33: in any sequence of addVersion, setActiveVersion, up, down and
\* uninstall calls, every value the engine hands to the external setter is
\* unset or the normalized label of a registered version, the store takes
\* that value or keeps its own, and so a store written only by the engine
\* never holds an unregistered label.
SetterGetsRegistered ==
    /\ [](hasSetter => UnsetOrRegistered(versions, store))
    /\ [][\A c \in Callers :
              SetterStep(c) =>
                  /\ UnsetOrRegistered(versions', active')
                  /\ store' \in {store, active'}]_vars

\* The store took "2.0.0" from a setActiveVersion("v2") on a collection of
\* three versions, after a getter, setter or action had failed.
SetterGetsRegisteredReached ==
    /\ hasSetter /\ Len(versions) = 3 /\ ~clean
    /\ calls[1].op = "setActiveVersion" /\ calls[1].target = <<"v", "2">>
    /\ calls[1].pc = "done" /\ calls[1].status = "ok"
    /\ store = <<"2", ".", "0", ".", "0">>

\* The call has a plan with both ends resolved.
HasPlan(call) == call.fromIndex # -1 /\ call.toIndex # -1

\* A call that ran nothing, wrote nothing and returned 0.
RanNothing(call) ==
    /\ call.pc = "done" /\ call.status = "ok" /\ call.value = 0
    /\ call.trace = <<>>
    /\ Marker = call.entry

\* up() never lowers the index of the active version; a sentinel target is
\* planned at or above 'from', and an explicit target below 'from' is a
\* no-op.
UpNeverLowers(call) ==
    call.op = "up" =>
        /\ ActiveIndex >= IndexAtEntry(call)
        /\ (HasPlan(call) /\ IsUpSentinel(call.target)) =>
               call.toIndex >= call.fromIndex
        /\ (HasPlan(call) /\ ~IsUpSentinel(call.target)
               /\ call.toIndex < call.fromIndex) => RanNothing(call)

\* down() never raises it; a sentinel target is planned at or below 'from',
\* and an explicit target above 'from' is a no-op.
DownNeverRaises(call) ==
    call.op = "down" =>
        /\ ActiveIndex <= IndexAtEntry(call)
        /\ (HasPlan(call) /\ IsDownSentinel(call.target)) =>
               call.toIndex <= call.fromIndex
        /\ (HasPlan(call) /\ ~IsDownSentinel(call.target)
               /\ call.toIndex > call.fromIndex) => RanNothing(call)

\* C34: for every target, at every point of a call, up() has not lowered
\* and down() has not raised the sorted index of the active version: the
\* plans of the sentinel targets have toIndex >= fromIndex for up() and
\* toIndex <= fromIndex for down(), and an explicit target in the wrong
\* direction is a no-op.
DirectionIsKept ==
    \A c \in Callers : UpNeverLowers(calls[c]) /\ DownNeverRaises(calls[c])

\* An up(label) to a registered label two or more below the active version,
\* which is the highest of four.
DirectionIsKeptReached ==
    /\ calls[1].op = "up" /\ ~IsUpSentinel(calls[1].target)
    /\ HasPlan(calls[1]) /\ calls[1].toIndex + 2 <= calls[1].fromIndex
    /\ calls[1].pc = "done"
    /\ ActiveIndex = 3

\* A down() call, running or over, that found a registered version active.
DownFromRegistered(call) == call.op = "down" /\ IndexAtEntry(call) # -1

\* An active version is set (the store's when a getter is configured, the
\* in-memory one otherwise), at or above the index `floor`; a plan that is
\* acted upon has toIndex >= 0.
StaysActive(call, floor) ==
    /\ ActiveIndex >= 0
    /\ FindIndex(versions, getActiveVersion) >= 0
    /\ ActiveIndex >= floor
    /\ call.fromIndex # -1 =>
           \/ call.toIndex >= 0
           \/ call.status = "TargetNotFound" /\ call.trace = <<>>

\* The step clears the marker, in memory or in the store.
Clears ==
    \/ active # Undefined /\ active' = Undefined
    \/ store # Undefined /\ store' = Undefined

\* The marker is cleared only in steps of uninstall() and of
\* setActiveVersion(unset).
ClearedOnlyOnRequest ==
    [][Clears =>
          \E c \in Callers :
              \/ calls'[c].op = "uninstall"
              \/ calls'[c].op = "setActiveVersion"
                 /\ calls'[c].target = Undefined]_vars

\* C35, as stated: down() never leaves the system without an active
\* version: during and after any down() call that started with a registered
\* active version, however it ends, an active version is set and its sorted
\* index is >= the planned toIndex >= 0.
DownStaysAboveTarget ==
    \A c \in Callers :
        DownFromRegistered(calls[c]) => StaysActive(calls[c], calls[c].toIndex)

\* C35, amended: the same, the index of the active version being >= the
\* lower of the planned fromIndex and toIndex: a down() to a registered
\* label above the active version is a no-op that leaves the active version
\* at fromIndex, below toIndex.
DownKeepsActive ==
    /\ [](\A c \in Callers :
             DownFromRegistered(calls[c]) =>
                 /\ StaysActive(calls[c],
                        Min(calls[c].fromIndex, calls[c].toIndex))
                 /\ calls[c].toIndex > calls[c].fromIndex =>
                        RanNothing(calls[c]) /\ ActiveIndex = calls[c].fromIndex)
    /\ ClearedOnlyOnRequest

\* A down("initial") from the highest of three versions that stopped at the
\* failure of its second down action, the second version being active.
DownKeepsActiveReached ==
    /\ DownFromRegistered(calls[1]) /\ calls[1].target = Initial
    /\ calls[1].pc = "done" /\ calls[1].status = "DowngradeFailed"
    /\ IndexAtEntry(calls[1]) = 2
    /\ ActiveIndex = 1 /\ calls[1].toIndex = 0

\* A setActiveVersion call in which the external setter failed.
SetterFailedIn(call) ==
    call.op = "setActiveVersion" /\ call.pc = "done" /\ call.status = "SetterFailed"

\* C36: when the external setter fails inside setActiveVersion, the
\* in-memory marker has been changed to the new value before the setter was
\* called and is not rolled back, and the store keeps the old value; with a
\* setter and no getter, getActiveVersion reports the new version.
FailedSetterLeavesMarker ==
    \A c \in Callers :
        /\ calls[c].pc = "mark_set" => active = calls[c].activeVersion
        /\ SetterFailedIn(calls[c]) =>
               /\ hasSetter
               /\ active = calls[c].activeVersion
               /\ active = SetMarker(versions, calls[c].before.active,
                                     calls[c].target, FALSE).marker
               /\ store = calls[c].before.store
               /\ ~hasGetter => getActiveVersion = active

\* A setter and no getter: the store holds 1.0.0 from an earlier call, the
\* setter failed in setActiveVersion("latest"), and getActiveVersion
\* reports 2.0.0.
FailedSetterLeavesMarkerReached ==
    /\ hasSetter /\ ~hasGetter
    /\ SetterFailedIn(calls[1]) /\ calls[1].target = Latest
    /\ store = <<"1", ".", "0", ".", "0">>
    /\ getActiveVersion = <<"2", ".", "0", ".", "0">>
    /\ calls[1].before.active = store

\* An up() or down() call on a non-empty collection that found in the store
\* a well-formed label that is not registered.
FoundUnregistered(call) ==
    /\ call.op \in {"up", "down"}
    /\ Len(versions) > 0
    /\ Truthy(call.entry)
    /\ ~IsError(normalizeSemver(call.entry))
    /\ indexOf(versions, call.entry) = -1

\* C37: when the external getter returns a well-formed label that is not
\* registered in a non-empty collection, up() and down() fail with
\* VersionNotFound, for every target, before any up or down action and
\* before the external setter: nothing is run and nothing is written.
UnregisteredActiveFails ==
    \A c \in Callers :
        FoundUnregistered(calls[c]) =>
            /\ calls[c].trace = <<>>
            /\ store = calls[c].entry
            /\ calls[c].pc \in {"up_get", "up_meta", "down_get", "down_meta", "done"}
            /\ calls[c].pc = "done" =>
                   calls[c].status \in {"VersionNotFound", "GetterFailed"}
            /\ calls[c].pc \in {"up_meta", "down_meta"} =>
                   calls[c].activeVersion = calls[c].entry

\* An up("latest") on four versions, all applied earlier, that failed with
\* VersionNotFound on the label it read.
UnregisteredActiveFailsReached ==
    /\ FoundUnregistered(calls[1])
    /\ calls[1].op = "up" /\ calls[1].target = Latest
    /\ calls[1].pc = "done" /\ calls[1].status = "VersionNotFound"
    /\ Len(versions) = 4 /\ Cardinality(applied) = 4

\* An up() call that has its plan.
PlannedUp(call) == call.op = "up" /\ call.fromIndex # -1 /\ call.toIndex # -1

\* The call runs the steps of the plan it made from the version it read,
\* whatever the other call has done since: its up actions are those of
\* fromIndex + 1 (fromIndex when initial) and the indices after it, and when
\* it returns it has run them all up to toIndex.
RunsOwnPlan(call, first) ==
    /\ Truthy(call.activeVersion) =>
           /\ ~call.isInitial
           /\ call.fromIndex = indexOf(versions, call.activeVersion)
    /\ \A k \in 1..Len(UpsOf(call)) : UpsOf(call)[k].index = first + k - 1
    /\ (call.pc = "done" /\ call.status = "ok") =>
           /\ UpsOf(call) = Ascending(first, CountBetween(first, call.toIndex))
           /\ call.value = CountBetween(first, call.toIndex)

\* C38: the engine implements no locking: of two up("latest") calls that
\* interleave at their awaits, each plans from the active version it read
\* and runs every step of its own plan, whatever the other call has run and
\* persisted meanwhile; so both can plan from the same active version and
\* both invoke the same version's up action.
CallsAreNotSerialized ==
    \A c \in RaceCallers :
        PlannedUp(calls[c]) =>
            RunsOwnPlan(calls[c],
                IF calls[c].isInitial THEN calls[c].fromIndex
                ELSE calls[c].fromIndex + 1)

\* Both calls read the same active version, the lowest of three or more
\* left active by an earlier call that failed, both made the same plan, and
\* both returned after running the up action of every version above it: each
\* of these steps was applied twice.
CallsAreNotSerializedReached ==
    /\ PlannedUp(calls[1]) /\ PlannedUp(calls[2])
    /\ Truthy(calls[1].activeVersion)
    /\ calls[1].activeVersion = calls[2].activeVersion
    /\ calls[1].fromIndex = 0 /\ calls[2].fromIndex = 0
    /\ calls[1].pc = "done" /\ calls[1].status = "ok"
    /\ calls[2].pc = "done" /\ calls[2].status = "ok"
    /\ calls[1].value >= 2
    /\ UpsOf(calls[1]) = UpsOf(calls[2])

====
